---- MODULE Spec2Model ----
(***************************************************************************)
(* Model of the metered UTXO ledger of the BCH x402 facilitator:           *)
(* FacilitatorUseCase.validateUtxo (the "debit" operation) in              *)
(* 02-bch-prototype/facilitator/src/use-cases/facilitator.js.              *)
(*                                                                         *)
(* validateUtxo is an async function.  JavaScript runs the code between    *)
(* two awaits without interruption, so every action below is one such      *)
(* run-to-the-next-await segment of one call:                              *)
(*   Call        the synchronous prefix, up to `await utxoDb.get`          *)
(*   DbGet       the store lookup resolves; path selection                 *)
(*   UtxoIsValid `await wallet.utxoIsValid` resolves (or throws)           *)
(*   GetRawTx    `await getRawTransaction` resolves (or throws); the       *)
(*               rest of revalidateUtxo and the debit arithmetic           *)
(*   DbPut       `await utxoDb.put` resolves                               *)
(* Spec runs the calls one at a time over every request, oracle answer    *)
(* and store failure; SpecConcurrent lets the calls of Calls overlap while *)
(* the store and the oracle are healthy.                                   *)
(*                                                                         *)
(* Amounts are satoshi integers; the decimal strings the code stores       *)
(* (BigInt.toString / BigInt(...)) are modelled by the integers they       *)
(* denote.  Timestamps are milliseconds; the ISO strings the code stores   *)
(* (toISOString / Date.parse) are modelled by their millisecond value.     *)
(* An optional field is a sequence of length 0 (absent) or 1 (present).    *)
(*                                                                         *)
(* A stored record carries the fields the code computes from and the       *)
(* timestamps it refreshes: transactionValueSat, remainingBalanceSat,      *)
(* totalDebitedSat, lastUpdated, lastChecked.  utxoId, txid, vout,         *)
(* payerAddress, receiverAddress, confirmations and firstSeen are written  *)
(* with the record and never read back; they are left out.                 *)
(***************************************************************************)
EXTENDS Integers, Sequences, FiniteSets, TLC

\* ---------------------------------------------------------------- bounds
MaxValue == 3
MaxTicks == 2
TickMs == 200000
MaxSpent == 4

UtxoIds == {"u1", "u2"}
SeqUtxoIds == {"u1"}
Calls == {"c1", "c2"}
SeqCalls == {"c1"}
Addresses == {"A", "B"}

\* ------------------------------------------------------ program constants
DEFAULT_MIN_CONFIRMATIONS == 1
revalidateThresholdMs == 5 * 60 * 1000

\* ------------------------------------------------------------- data types
Absent == << >>
Some(x) == << x >>
IsPresent(o) == o # << >>
Get(o) == o[1]

\* a ?? b
Coalesce(o, d) == IF IsPresent(o) THEN Get(o) ELSE d

\* What getRawTransaction(txid, true) can answer for the output, reduced to
\* the fields revalidateUtxo reads: rawTx.vout[vout] exists, rawTx.confirmations,
\* the output's first address, and Number(output.value) converted to satoshis
\* (finite = FALSE: Number(output.value) is NaN or infinite).
RawTxs ==
  [hasOutput : BOOLEAN, confirmations : 0..1, address : Addresses,
   finite : {TRUE}, value : 0..MaxValue]
  \cup
  [hasOutput : BOOLEAN, confirmations : 0..1, address : Addresses,
   finite : {FALSE}, value : {0}]

NoTx == [hasOutput |-> FALSE, confirmations |-> 0, address |-> "A",
         finite |-> FALSE, value |-> 0]

\* The answer of the chain oracle to one revalidation step of one call.
NoSeen == [call |-> "", threw |-> FALSE, spendable |-> FALSE, tx |-> NoTx]

\* paymentRequirements, the fields validateUtxo reads.
Requirements ==
  [minAmountRequired : {Absent, Some(1), Some(2)},
   maxAmountRequired : {Absent, Some(2)},
   payTo : {Absent, Some("A")},
   minConfirmations : {Absent, Some(0)}]

\* Requests and oracle answers of the runs in which nothing but the ledger
\* arithmetic decides: the lookup and the oracle work, the output is
\* spendable, confirmed, paid to payTo and worth MaxValue.
HealthyRequirements ==
  [minAmountRequired : {Absent, Some(2)},
   maxAmountRequired : {Absent},
   payTo : {Some("A")},
   minConfirmations : {Absent}]
HealthyTxs ==
  { tx \in RawTxs : /\ tx.hasOutput /\ tx.confirmations = 1 /\ tx.address = "A"
                    /\ tx.finite /\ tx.value = MaxValue }

\* The worked example: an output of 1000 sat, calls of 100 sat each.
ExampleTx ==
  [hasOutput |-> TRUE, confirmations |-> 1, address |-> "A", finite |-> TRUE,
   value |-> 1000]
ExampleRequirements ==
  [minAmountRequired |-> Some(100), maxAmountRequired |-> Some(100),
   payTo |-> Some("A"), minConfirmations |-> Absent]

\* Each of two overlapping calls has a funding reference of its own.
OwnRef == [p \in Calls |-> IF p = "c1" THEN "u1" ELSE "u2"]

NoArgs == [utxoId |-> "", callCostSat |-> 0, payTo |-> Absent, minConfirmations |-> 0]
\* errorMessage: the result carries the text of a caught exception
\* (facilitator.js:609-611).
NoResult ==
  [isValid |-> FALSE, invalidReason |-> "", remainingBalanceSat |-> Absent,
   errorMessage |-> FALSE]

Reject(reason) ==
  [isValid |-> FALSE, invalidReason |-> reason, remainingBalanceSat |-> Absent,
   errorMessage |-> FALSE]
RejectWith(reason, amount) ==
  [isValid |-> FALSE, invalidReason |-> reason,
   remainingBalanceSat |-> Some(amount), errorMessage |-> FALSE]
RejectError(reason) ==
  [isValid |-> FALSE, invalidReason |-> reason, remainingBalanceSat |-> Absent,
   errorMessage |-> TRUE]
Accept(amount) ==
  [isValid |-> TRUE, invalidReason |-> "", remainingBalanceSat |-> Some(amount),
   errorMessage |-> FALSE]

\* What verifyPayment's caller hands in (facilitator.js:625).  shape: which
\* of payload, payload.authorization, payload.signature the envelope has;
\* signature: what verifyMessage does with the signature; value:
\* authorization.value, a decimal numeral or a 0x-prefixed hexadecimal one.
Networks == {"bch", "eth"}
Schemes == {"utxo", "exact"}
Shapes == {"noPayload", "noAuthorization", "noSignature", "complete"}
SignatureOutcomes == {"valid", "invalid", "throws"}
Dec(n) == [hex |-> FALSE, n |-> n]
Hex(n) == [hex |-> TRUE, n |-> n]
AuthorizationValues == {Dec(1), Dec(2), Hex(2)}

\* BigInt(value), facilitator.js:740: a 0x prefix is read as hexadecimal.
BigInt(value) == value.n
\* parseInt(value, 10), facilitator.js:813: parsing stops at the x of a 0x
\* prefix, which leaves 0.
parseInt(value) == IF value.hex THEN 0 ELSE value.n

\* authorization.validAfter and validBefore, in seconds, of an authorization
\* that is inside its window at every time the clock shows.
OpenWindow == [validAfter |-> 0, validBefore |-> 1000]

\* An envelope that lacks the authorization or the signature has nothing for
\* verifyMessage or the amount check to read.
Envelopes ==
  { e \in [network : Networks, scheme : Schemes, shape : Shapes,
           signature : SignatureOutcomes, value : AuthorizationValues,
           validAfter : {OpenWindow.validAfter},
           validBefore : {OpenWindow.validBefore}, nonce : {"n1"}] :
      e.shape # "complete" => (e.signature = "invalid" /\ e.value = Dec(1)) }
VerifyRequirements ==
  [network : Networks, scheme : Schemes,
   minAmountRequired : {Absent, Some(1)},
   maxAmountRequired : {Absent, Some(2)},
   payTo : {Some("A")},
   minConfirmations : {Absent}]
\* The worked example of settlement: requirements of 100 sat, authorizations
\* of 50 sat and of 100 sat, both well-formed and signed.
ExampleSettleRequirements ==
  [network |-> "bch", scheme |-> "utxo",
   minAmountRequired |-> Some(100), maxAmountRequired |-> Some(100),
   payTo |-> Some("A"), minConfirmations |-> Absent]
ExampleEnvelopes ==
  { [network |-> "bch", scheme |-> "utxo", shape |-> "complete",
     signature |-> "valid", value |-> v,
     validAfter |-> OpenWindow.validAfter,
     validBefore |-> OpenWindow.validBefore, nonce |-> "n1"] :
       v \in {Dec(50), Dec(100)} }
\* authorization.nonce: two authorizations of 100 sat that differ in nothing
\* but the nonce.
Nonces == {"n1", "n2"}
ReplayEnvelopes ==
  { [network |-> "bch", scheme |-> "utxo", shape |-> "complete",
     signature |-> "valid", value |-> Dec(100),
     validAfter |-> OpenWindow.validAfter,
     validBefore |-> OpenWindow.validBefore, nonce |-> n] : n \in Nonces }

\* Authorizations with a validity window that is open throughout, closes
\* after the first tick, opens after the first tick, or is empty.
Windows ==
  { [validAfter |-> a, validBefore |-> b] : a \in {0, 300}, b \in {200, 1000} }
WindowEnvelopes ==
  { [network |-> "bch", scheme |-> "utxo", shape |-> "complete",
     signature |-> "valid", value |-> v,
     validAfter |-> w.validAfter, validBefore |-> w.validBefore,
     nonce |-> "n1"] :
       v \in {Dec(0), Dec(2)}, w \in Windows }
WindowRequirements ==
  { [network |-> "bch", scheme |-> "utxo",
     minAmountRequired |-> Some(1), maxAmountRequired |-> Some(m),
     payTo |-> Some("A"), minConfirmations |-> Absent] : m \in {0, 2} }
\* paymentRequirements.maxTimeoutSeconds as the client finds it.
MaxTimeouts == {Absent, Some(0), Some(60), Some(0 - 60)}

\* The requirements of a resource server on the bch network.
SettleRequirements == { req \in VerifyRequirements : req.network = "bch" }
\* balanceData.balance + balanceData.unconfirmedBalance (facilitator.js:754)
Balances == {0, MaxValue}

NoVerifyResult ==
  [isValid |-> FALSE, invalidReason |-> "", errorMessage |-> FALSE]
NoVerify ==
  [stage |-> "idle", network |-> "", scheme |-> "", reqNetwork |-> "",
   reqScheme |-> "", shape |-> "", signature |-> "", value |-> 0,
   validAfter |-> 0, validBefore |-> 0,
   maxAmountRequired |-> Absent, balance |-> Absent, balanceThrew |-> FALSE,
   result |-> NoVerifyResult]

\* settlePayment's locals and its return value (facilitator.js:793-888).
\* nonce: authorization.nonce of the payload handed to this call;
\* value: authorization.value; amount: parseInt(value, 10); sends: how many
\* times wallet.send was called; sent: the output handed to it; txid: what
\* it returned; threw: an exception reached the catch of lines 878-887.
\* What wallet.send does (facilitator.js:852): it returns a transaction id,
\* returns nothing, or throws (a time-out inside the wallet library throws).
SendOutcomes == {"txid", "none", "throws"}
\* wallet.getBalance of the facilitator's address (facilitator.js:833)
FacilitatorBalances == {0, 1, MaxValue}
\* What handleRequest finds in the request body (part_000:389, 429).
Bodies == {"complete", "noPaymentPayload", "noPaymentRequirements"}
Endpoints == {"verify", "settle"}

NoSettleResult == [success |-> FALSE, errorReason |-> "", transaction |-> ""]
NoSettle ==
  [stage |-> "idle", nonce |-> "", value |-> Dec(0), amount |-> 0,
   payTo |-> Absent,
   facilitatorBalance |-> Absent, sends |-> 0, sent |-> Absent,
   txid |-> Absent, threw |-> FALSE, result |-> NoSettleResult]

\* The client's requests through the axios instance that carries the payment
\* interceptor (README.md:135-190).
Requests == {"r1", "r2"}
\* error.config as the interceptor finds it (README.md:146-148)
Configs == {"complete", "noHeaders", "noConfig"}
\* The entries of error.response.data.accepts, reduced to the fields
\* selectPaymentRequirements and createPaymentHeader read.
AcceptItems ==
  { [network |-> "bch", scheme |-> "exact", maxAmountRequired |-> Some(2),
     maxTimeoutSeconds |-> Some(60)],
    [network |-> "bch", scheme |-> "exact", maxAmountRequired |-> Some(1),
     maxTimeoutSeconds |-> Absent],
    [network |-> "bch", scheme |-> "utxo", maxAmountRequired |-> Some(2),
     maxTimeoutSeconds |-> Some(60)],
    [network |-> "eth", scheme |-> "exact", maxAmountRequired |-> Some(2),
     maxTimeoutSeconds |-> Some(60)] }
\* error.response.data.accepts: missing, or an array of up to two entries.
AcceptsLists ==
  {Absent, Some(<< >>)}
    \cup { Some(<< a >>) : a \in AcceptItems }
    \cup { Some(<< a, b >>) : a \in AcceptItems, b \in AcceptItems }
\* What comes back for one send.  kind: axios fulfils the promise (a 2xx
\* status) or rejects it; status: error.response.status, 0 when the error
\* has no response (a network failure).
Replies ==
  { [kind |-> "response", status |-> 200, accepts |-> Absent],
    [kind |-> "error", status |-> 0, accepts |-> Absent],
    [kind |-> "error", status |-> 500, accepts |-> Absent] }
    \cup { [kind |-> "error", status |-> 402, accepts |-> a] :
             a \in AcceptsLists }
\* sends: how many times the request went out; is402Retry:
\* originalConfig.__is402Retry; xPayment: originalConfig.headers['X-PAYMENT'];
\* selected: what selectPaymentRequirements returned; status: the status of
\* the latest reply; outcome: what the caller's promise settled with.
NoClient ==
  [stage |-> "idle", sends |-> 0, config |-> "", is402Retry |-> FALSE,
   xPayment |-> Absent, selected |-> Absent, status |-> 0, outcome |-> ""]

\* handleRequest's invocation and the response the adapter sends.  message:
\* the body carries error.message.
NoHttp ==
  [stage |-> "idle", endpoint |-> "", body |-> "", status |-> 0,
   reason |-> "", message |-> FALSE]

VARIABLES
  utxoDbReady,  \* this.adapters.levelDB.utxoDb is set
  db,           \* the Level store: utxoId -> Absent | Some(record)
  seen,         \* the chain oracle's answer, when the latest step was a revalidation step
  now,          \* Date.now(), ms
  pc,           \* per call: position in validateUtxo
  args,         \* per call: utxoId, callCostSat, payTo, minConfirmations
  utxoInfo,     \* per call: the record utxoDb.get returned (local)
  pending,      \* per call: the record handed to utxoDb.put (local)
  result,       \* per call: the value validateUtxo returned
  path,         \* per call: which branch the lookup selected
  spent,        \* per utxoId: sum of callCostSat over the successful calls
  verify,       \* per call: the verifyPayment invocation around validateUtxo
  settle,       \* per call: the settlePayment invocation around verifyPayment
  http,         \* per call: the request handler's invocation and response
  client,       \* per client request: the interceptor's view of it (README.md:135-190)
  chainChecked  \* per utxoId: when the stored record was last checked against
                \* the chain (history; kept up to date by DbPutChecked only)

vars == << utxoDbReady, db, seen, now, pc, args, utxoInfo, pending, result,
           path, spent, verify, settle, http, chainChecked, client >>

\* ------------------------------------------------------- pure computations

\* Math.floor(Date.now() / 1000)
nowSec(nowMs) == nowMs \div 1000

\* README.md:65-102: the payment header the client builds and signs at
\* second nowS for the requirements req, whose maxTimeoutSeconds is m
\* (m || 60: an absent or zero maxTimeoutSeconds counts as 60).  The nonce
\* is 32 random bytes, which no check of the facilitator reads.
createPaymentHeader(nowS, req, m) ==
  [network |-> req.network, scheme |-> req.scheme, shape |-> "complete",
   signature |-> "valid", value |-> Dec(Get(req.maxAmountRequired)),
   validAfter |-> nowS - 60,
   validBefore |-> nowS + (IF m = Absent \/ m = Some(0) THEN 60 ELSE Get(m)),
   nonce |-> "n1"]

\* README.md:109-121: the first entry for the bch network and the exact
\* scheme; Absent stands for the exception thrown when there is none.
bchRequirements(accepts) ==
  SelectSeq(accepts, LAMBDA req : req.network = "bch" /\ req.scheme = "exact")
selectPaymentRequirements(accepts) ==
  IF bchRequirements(accepts) = << >>
    THEN Absent
    ELSE Some(Head(bchRequirements(accepts)))

ClientSettled(c, stage, reply, outcome) ==
  [c EXCEPT !.stage = stage, !.status = reply.status, !.outcome = outcome]

\* The interceptor without the guard of README.md:151-153.
interceptor_NoRetryGuard(c, reply) ==
  IF reply.kind = "response"
    THEN ClientSettled(c, "resolved", reply, "response")
  ELSE IF reply.status # 402
    THEN ClientSettled(c, "rejected", reply, "error")
  ELSE IF c.config # "complete"
    THEN ClientSettled(c, "rejected", reply,
                       "Missing axios request configuration")
  ELSE IF ~IsPresent(reply.accepts) \/ Len(Get(reply.accepts)) = 0
    THEN ClientSettled(c, "rejected", reply,
                       "No payment requirements found in 402 response")
  ELSE IF ~IsPresent(selectPaymentRequirements(Get(reply.accepts)))
    THEN ClientSettled(c, "rejected", reply,
                       "No BCH payment requirements found in 402 response")
  ELSE [c EXCEPT !.stage = "paying", !.status = reply.status,
                 !.selected = selectPaymentRequirements(Get(reply.accepts))]

\* README.md:136-165: the response interceptor, up to its first await.  A
\* fulfilled response passes through (137); an error without a response or
\* with another status than 402 is rejected as it is (140-142); then the
\* checks of the request configuration (145-148), of the retry mark
\* (151-153), of accepts (158-160) and the selection (163), whose exception
\* the catch of 183-186 turns into a rejection.  The reply to the re-sent
\* request runs through the same interceptor, and what it settles with is
\* what the await of line 180 hands to the caller.
interceptor(c, reply) ==
  IF reply.kind = "response"
    THEN ClientSettled(c, "resolved", reply, "response")
  ELSE IF reply.status # 402
    THEN ClientSettled(c, "rejected", reply, "error")
  ELSE IF c.config # "complete"
    THEN ClientSettled(c, "rejected", reply,
                       "Missing axios request configuration")
  ELSE IF c.is402Retry
    THEN ClientSettled(c, "rejected", reply, "error")
  ELSE IF ~IsPresent(reply.accepts) \/ Len(Get(reply.accepts)) = 0
    THEN ClientSettled(c, "rejected", reply,
                       "No payment requirements found in 402 response")
  ELSE IF ~IsPresent(selectPaymentRequirements(Get(reply.accepts)))
    THEN ClientSettled(c, "rejected", reply,
                       "No BCH payment requirements found in 402 response")
  ELSE [c EXCEPT !.stage = "paying", !.status = reply.status,
                 !.selected = selectPaymentRequirements(Get(reply.accepts))]

\* facilitator.js:371-375
callCostSat(req) ==
  Coalesce(req.minAmountRequired, Coalesce(req.maxAmountRequired, 0))

\* facilitator.js:408-411; the wallet adapter's minConfirmations is its
\* default, DEFAULT_MIN_CONFIRMATIONS.
minConfirmations(req) ==
  Coalesce(req.minConfirmations, DEFAULT_MIN_CONFIRMATIONS)

\* shouldRevalidate that revalidates on every call.
shouldRevalidate_Always(info, nowMs) ==
  nowMs - info.lastChecked >= 0

\* facilitator.js:528-534 (lastChecked is always a parseable timestamp in a
\* record this code wrote)
shouldRevalidate(info, nowMs) ==
  nowMs - info.lastChecked > revalidateThresholdMs

\* rawTxVerdict without the utxoAmountSat <= 0n check of lines 447-452.
rawTxVerdict_ZeroAccepted(tx, a) ==
  IF ~tx.hasOutput
    THEN [isValid |-> FALSE, invalidReason |-> "utxo_output_not_found"]
  ELSE IF tx.confirmations < a.minConfirmations
    THEN [isValid |-> FALSE, invalidReason |-> "insufficient_confirmations"]
  ELSE IF IsPresent(a.payTo) /\ tx.address # Get(a.payTo)
    THEN [isValid |-> FALSE, invalidReason |-> "recipient_mismatch"]
  ELSE IF ~tx.finite
    THEN [isValid |-> FALSE, invalidReason |-> "invalid_utxo_value"]
  ELSE [isValid |-> TRUE, invalidReason |-> ""]

\* facilitator.js:398-459: revalidateUtxo after utxoIsValid returned true.
rawTxVerdict(tx, a) ==
  IF ~tx.hasOutput
    THEN [isValid |-> FALSE, invalidReason |-> "utxo_output_not_found"]
  ELSE IF tx.confirmations < a.minConfirmations
    THEN [isValid |-> FALSE, invalidReason |-> "insufficient_confirmations"]
  ELSE IF IsPresent(a.payTo) /\ tx.address # Get(a.payTo)
    THEN [isValid |-> FALSE, invalidReason |-> "recipient_mismatch"]
  ELSE IF ~tx.finite
    THEN [isValid |-> FALSE, invalidReason |-> "invalid_utxo_value"]
  ELSE IF tx.value <= 0
    THEN [isValid |-> FALSE, invalidReason |-> "invalid_utxo_value"]
  ELSE [isValid |-> TRUE, invalidReason |-> ""]

\* coldDebit that rejects an unaffordable first call only after storing the
\* record of the observed output.
coldDebit_RecordsRejected(tx, cost, timestamp) ==
  LET remainingBalanceSat == tx.value - cost IN
  IF remainingBalanceSat < 0
    THEN [result |-> RejectWith("insufficient_utxo_balance", tx.value),
          put |-> Some([transactionValueSat |-> tx.value,
                        remainingBalanceSat |-> tx.value,
                        totalDebitedSat |-> 0,
                        lastUpdated |-> timestamp,
                        lastChecked |-> timestamp])]
    ELSE [result |-> Accept(remainingBalanceSat),
          put |-> Some([transactionValueSat |-> tx.value,
                        remainingBalanceSat |-> remainingBalanceSat,
                        totalDebitedSat |-> cost,
                        lastUpdated |-> timestamp,
                        lastChecked |-> timestamp])]

\* coldDebit that does not count the first call in totalDebitedSat.
coldDebit_FirstCallFree(tx, cost, timestamp) ==
  LET remainingBalanceSat == tx.value - cost IN
  IF remainingBalanceSat < 0
    THEN [result |-> RejectWith("insufficient_utxo_balance", tx.value),
          put |-> Absent]
    ELSE [result |-> Accept(remainingBalanceSat),
          put |-> Some([transactionValueSat |-> tx.value,
                        remainingBalanceSat |-> remainingBalanceSat,
                        totalDebitedSat |-> 0,
                        lastUpdated |-> timestamp,
                        lastChecked |-> timestamp])]

\* facilitator.js:488-519: the cold path after a valid revalidation.
\* Returns the call's result and the record to put (Absent: no put).
coldDebit(tx, cost, timestamp) ==
  LET remainingBalanceSat == tx.value - cost IN
  IF remainingBalanceSat < 0
    THEN [result |-> RejectWith("insufficient_utxo_balance", tx.value),
          put |-> Absent]
    ELSE [result |-> Accept(remainingBalanceSat),
          put |-> Some([transactionValueSat |-> tx.value,
                        remainingBalanceSat |-> remainingBalanceSat,
                        totalDebitedSat |-> cost,
                        lastUpdated |-> timestamp,
                        lastChecked |-> timestamp])]

\* reconcile that takes the on-chain ceiling for the balance, also when the
\* cached balance is below it.
reconcile_TakesCeiling(info, tx) ==
  LET onChainRemaining == tx.value - info.totalDebitedSat IN
  IF onChainRemaining < 0
    THEN [ok |-> FALSE, currentRemainingSat |-> info.remainingBalanceSat,
          info |-> info]
    ELSE [ok |-> TRUE,
          currentRemainingSat |-> onChainRemaining,
          info |-> [info EXCEPT !.transactionValueSat = tx.value]]

\* reconcile that clamps a negative on-chain ceiling to zero and continues.
reconcile_ClampToZero(info, tx) ==
  LET onChainRemaining == tx.value - info.totalDebitedSat
      ceiling == IF onChainRemaining < 0 THEN 0 ELSE onChainRemaining
  IN
  [ok |-> TRUE,
   currentRemainingSat |->
     IF ceiling < info.remainingBalanceSat
       THEN ceiling ELSE info.remainingBalanceSat,
   info |-> [info EXCEPT !.transactionValueSat = tx.value]]

\* facilitator.js:552-570: reconcile the cached record with a valid
\* revalidation.  ok = FALSE: utxo_previous_spend_detected.  info is the
\* in-memory utxoInfo after lines 566-569.
reconcile(info, tx) ==
  LET onChainRemaining == tx.value - info.totalDebitedSat IN
  IF onChainRemaining < 0
    THEN [ok |-> FALSE, currentRemainingSat |-> info.remainingBalanceSat,
          info |-> info]
    ELSE [ok |-> TRUE,
          currentRemainingSat |->
            IF onChainRemaining < info.remainingBalanceSat
              THEN onChainRemaining ELSE info.remainingBalanceSat,
          info |-> [info EXCEPT !.transactionValueSat = tx.value]]

\* warmDebit that rejects a call whose cost is the whole remaining balance.
warmDebit_RejectsExact(info, currentRemainingSat, cost, timestamp) ==
  LET updatedRemainingSat == currentRemainingSat - cost IN
  IF updatedRemainingSat <= 0
    THEN [result |-> RejectWith("insufficient_utxo_balance", currentRemainingSat),
          put |-> Absent]
    ELSE [result |-> Accept(updatedRemainingSat),
          put |-> Some([info EXCEPT
                          !.remainingBalanceSat = updatedRemainingSat,
                          !.totalDebitedSat = info.totalDebitedSat + cost,
                          !.lastUpdated = timestamp,
                          !.lastChecked = timestamp])]

\* warmDebit that refreshes lastChecked in the store when it rejects.
warmDebit_TouchesOnReject(info, currentRemainingSat, cost, timestamp) ==
  LET updatedRemainingSat == currentRemainingSat - cost IN
  IF updatedRemainingSat < 0
    THEN [result |-> RejectWith("insufficient_utxo_balance", currentRemainingSat),
          put |-> Some([info EXCEPT !.lastChecked = timestamp])]
    ELSE [result |-> Accept(updatedRemainingSat),
          put |-> Some([info EXCEPT
                          !.remainingBalanceSat = updatedRemainingSat,
                          !.totalDebitedSat = info.totalDebitedSat + cost,
                          !.lastUpdated = timestamp,
                          !.lastChecked = timestamp])]

\* warmDebit without the balance check of lines 574-580.
warmDebit_Unchecked(info, currentRemainingSat, cost, timestamp) ==
  LET updatedRemainingSat == currentRemainingSat - cost IN
  [result |-> Accept(updatedRemainingSat),
   put |-> Some([info EXCEPT
                   !.remainingBalanceSat = updatedRemainingSat,
                   !.totalDebitedSat = info.totalDebitedSat + cost,
                   !.lastUpdated = timestamp,
                   !.lastChecked = timestamp])]

\* facilitator.js:572-598: the warm-path debit.
warmDebit(info, currentRemainingSat, cost, timestamp) ==
  LET updatedRemainingSat == currentRemainingSat - cost IN
  IF updatedRemainingSat < 0
    THEN [result |-> RejectWith("insufficient_utxo_balance", currentRemainingSat),
          put |-> Absent]
    ELSE [result |-> Accept(updatedRemainingSat),
          put |-> Some([info EXCEPT
                          !.remainingBalanceSat = updatedRemainingSat,
                          !.totalDebitedSat = info.totalDebitedSat + cost,
                          !.lastUpdated = timestamp,
                          !.lastChecked = timestamp])]

\* facilitator.js:334-344
listSupportedKinds == {[scheme |-> "exact", network |-> "bch"]}

\* preLedgerVerdict without the payload check of lines 660-666.
preLedgerVerdict_PayloadUnchecked(env, req) ==
  IF req.network # "bch" THEN "invalid_network"
  ELSE IF env.network # "bch" THEN "invalid_network"
  ELSE IF req.scheme # "utxo" \/ env.scheme # "utxo" THEN "invalid_scheme"
  ELSE IF env.signature # "valid" THEN "invalid_exact_bch_payload_signature"
  ELSE ""

\* preLedgerVerdict without the try/catch of lines 675-688: an exception of
\* verifyMessage reaches the outer catch of lines 773-780.
preLedgerVerdict_ThrowEscapes(env, req) ==
  IF req.network # "bch" THEN "invalid_network"
  ELSE IF env.network # "bch" THEN "invalid_network"
  ELSE IF req.scheme # "utxo" \/ env.scheme # "utxo" THEN "invalid_scheme"
  ELSE IF env.shape # "complete" THEN "invalid_payload"
  ELSE IF env.signature = "throws" THEN "unexpected_verify_error"
  ELSE IF env.signature # "valid" THEN "invalid_exact_bch_payload_signature"
  ELSE ""

\* facilitator.js:632-696: the checks of verifyPayment before validateUtxo,
\* in the code's order.  The reason of the first that fails; "" when all
\* pass.
preLedgerVerdict(env, req) ==
  IF req.network # "bch" THEN "invalid_network"
  ELSE IF env.network # "bch" THEN "invalid_network"
  ELSE IF req.scheme # "utxo" \/ env.scheme # "utxo" THEN "invalid_scheme"
  ELSE IF env.shape # "complete" THEN "invalid_payload"
  ELSE IF env.signature # "valid" THEN "invalid_exact_bch_payload_signature"
  ELSE ""

\* The verifyPayment record of a call that has read the envelope and the
\* requirements as far as `reason` lets it: payload is read at 659 once
\* network and scheme passed, the signature at 668 once the payload is
\* complete (JSON.stringify(authorization) at 672 takes validAfter and
\* validBefore with it), authorization.value and maxAmountRequired at 740-741.
verifyRead(env, req, reason) ==
  LET protocolOk == reason \notin {"invalid_network", "invalid_scheme"} IN
  [NoVerify EXCEPT
     !.network = env.network, !.scheme = env.scheme,
     !.reqNetwork = req.network, !.reqScheme = req.scheme,
     !.shape = IF protocolOk THEN env.shape ELSE "",
     !.signature = IF protocolOk /\ env.shape = "complete"
                     THEN env.signature ELSE "",
     !.validAfter = IF protocolOk /\ env.shape = "complete"
                      THEN env.validAfter ELSE 0,
     !.validBefore = IF protocolOk /\ env.shape = "complete"
                       THEN env.validBefore ELSE 0,
     !.value = IF reason = "" THEN BigInt(env.value) ELSE 0,
     !.maxAmountRequired = IF reason = "" THEN req.maxAmountRequired
                                          ELSE Absent]

\* afterLedgerVerdict that goes on to the amount check whatever validateUtxo
\* returned.
afterLedgerVerdict_IgnoresLedger(v, r) ==
  IF ~IsPresent(v.maxAmountRequired) THEN "unexpected_verify_error"
  ELSE IF v.value < Get(v.maxAmountRequired)
    THEN "invalid_exact_bch_payload_authorization_value"
  ELSE ""

\* afterLedgerVerdict with the reason named as the specification names it.
afterLedgerVerdict_SpecReason(v, r) ==
  IF ~r.isValid
    THEN IF r.invalidReason = "" THEN "invalid_utxo" ELSE r.invalidReason
  ELSE IF ~IsPresent(v.maxAmountRequired) THEN "unexpected_verify_error"
  ELSE IF v.value < Get(v.maxAmountRequired)
    THEN "invalid_exact_payload_authorization_value"
  ELSE ""

\* facilitator.js:731-749: verifyPayment after validateUtxo returned r.
\* BigInt(undefined) throws: a missing maxAmountRequired reaches the catch
\* of lines 773-780.  "": the call goes on to the balance lookup.
afterLedgerVerdict(v, r) ==
  IF ~r.isValid
    THEN IF r.invalidReason = "" THEN "invalid_utxo" ELSE r.invalidReason
  ELSE IF ~IsPresent(v.maxAmountRequired) THEN "unexpected_verify_error"
  ELSE IF v.value < Get(v.maxAmountRequired)
    THEN "invalid_exact_bch_payload_authorization_value"
  ELSE ""

VerifyReject(reason) ==
  [isValid |-> FALSE, invalidReason |-> reason, errorMessage |-> FALSE]
VerifyAccept == [isValid |-> TRUE, invalidReason |-> "", errorMessage |-> FALSE]

\* verifyRejection that hands validateUtxo's own result object on to the
\* caller of verifyPayment.
verifyRejection_ForwardsValidation(reason, r) ==
  [VerifyReject(reason) EXCEPT !.errorMessage = r.errorMessage]

\* facilitator.js:731-737 and 743-748: the rejection verifyPayment builds
\* after validateUtxo returned r, a new object that takes nothing from r but
\* the reason.
verifyRejection(reason, r) == VerifyReject(reason)

\* ---------------------------------------------------------------- actions
Init ==
  /\ utxoDbReady \in BOOLEAN
  /\ db = [u \in UtxoIds |-> Absent]
  /\ seen = NoSeen
  /\ now = 0
  /\ pc = [p \in Calls |-> "idle"]
  /\ args = [p \in Calls |-> NoArgs]
  /\ utxoInfo = [p \in Calls |-> Absent]
  /\ pending = [p \in Calls |-> Absent]
  /\ result = [p \in Calls |-> NoResult]
  /\ path = [p \in Calls |-> "none"]
  /\ spent = [u \in UtxoIds |-> 0]
  /\ verify = [p \in Calls |-> NoVerify]
  /\ settle = [p \in Calls |-> NoSettle]
  /\ http = [p \in Calls |-> NoHttp]
  /\ chainChecked = [u \in UtxoIds |-> 0]
  /\ client = [r \in Requests |-> NoClient]

\* The call returns r: its locals are dropped; the funding reference, the call
\* cost and the result stay on record.
Return(p, a, r) ==
  /\ pc' = [pc EXCEPT ![p] = "done"]
  /\ args' = [args EXCEPT ![p] = [NoArgs EXCEPT !.utxoId = a.utxoId,
                                                !.callCostSat = a.callCostSat]]
  /\ result' = [result EXCEPT ![p] = r]
  /\ utxoInfo' = [utxoInfo EXCEPT ![p] = Absent]
  /\ pending' = [pending EXCEPT ![p] = Absent]

\* The call issues utxoDb.put(utxoId, rec) and awaits it; r is what it
\* returns once the put has resolved.
IssuePut(p, r, rec) ==
  /\ pc' = [pc EXCEPT ![p] = "put"]
  /\ result' = [result EXCEPT ![p] = r]
  /\ utxoInfo' = [utxoInfo EXCEPT ![p] = Absent]
  /\ pending' = [pending EXCEPT ![p] = Some(rec)]
  /\ UNCHANGED args

Finish(p, outcome) ==
  IF IsPresent(outcome.put)
    THEN IssuePut(p, outcome.result, Get(outcome.put))
    ELSE Return(p, args[p], outcome.result)

\* facilitator.js:347-386 and the issue of utxoDb.get at 465.  Utxos: the
\* funding references the call may name; cap: no call is made on a funding
\* reference charged `cap` or more (bounds the run).
validateUtxo(p, Utxos, Reqs, Auths, cap) ==
  /\ pc[p] \in {"idle", "done"}
  /\ \E u \in Utxos, req \in Reqs, hasAuthorization \in Auths :
       LET a == [utxoId |-> u, callCostSat |-> callCostSat(req),
                 payTo |-> req.payTo,
                 minConfirmations |-> minConfirmations(req)]
       IN
       /\ spent[u] < cap
       /\ path' = [path EXCEPT ![p] = "none"]
       /\ IF ~hasAuthorization
            THEN Return(p, a, Reject("missing_authorization"))
          ELSE IF ~utxoDbReady
            THEN Return(p, a, RejectError("unexpected_utxo_validation_error"))
          ELSE /\ pc' = [pc EXCEPT ![p] = "get"]
               /\ args' = [args EXCEPT ![p] = a]
               /\ result' = [result EXCEPT ![p] = NoResult]
               /\ UNCHANGED << utxoInfo, pending >>
  /\ seen' = NoSeen
  /\ UNCHANGED << utxoDbReady, chainChecked, client, db, now, spent >>

\* validateUtxo called on its own, on the funding reference u1.
Call(p, Reqs, Auths) ==
  /\ validateUtxo(p, SeqUtxoIds, Reqs, Auths, MaxSpent)
  /\ UNCHANGED << verify, settle, http >>

\* facilitator.js:462-470, 520-536, 572-592: utxoDb.get resolves.
\* getFails: the store rejects the lookup for a reason other than a
\* missing key; the code's catch ignores every error alike.
DbGet(p, GetFailures) ==
  /\ pc[p] = "get"
  /\ \E getFails \in GetFailures :
       LET info == IF getFails THEN Absent ELSE db[args[p].utxoId] IN
       IF ~IsPresent(info)
         THEN /\ pc' = [pc EXCEPT ![p] = "utxoIsValid"]
              /\ path' = [path EXCEPT ![p] =
                            IF getFails THEN "coldGetFailed" ELSE "cold"]
              /\ UNCHANGED << args, utxoInfo, pending, result >>
       ELSE IF shouldRevalidate(Get(info), now)
         THEN /\ pc' = [pc EXCEPT ![p] = "utxoIsValid"]
              /\ path' = [path EXCEPT ![p] = "warmStale"]
              /\ utxoInfo' = [utxoInfo EXCEPT ![p] = info]
              /\ UNCHANGED << args, pending, result >>
       ELSE /\ path' = [path EXCEPT ![p] = "warmFresh"]
            /\ Finish(p, warmDebit(Get(info), Get(info).remainingBalanceSat,
                                   args[p].callCostSat, now))
  /\ seen' = NoSeen
  /\ UNCHANGED << utxoDbReady, chainChecked, client, db, now, spent, verify, settle, http >>

\* RevalidationFailed that fails open: the call is let through uncharged.
RevalidationFailed_FailsOpen(p) ==
  Return(p, args[p], Accept(0))

\* facilitator.js:473-482 and 537-546: revalidateUtxo threw.
RevalidationFailed(p) ==
  IF path[p] = "warmStale"
    THEN Return(p, args[p], Reject("utxo_revalidation_failed"))
    ELSE Return(p, args[p], Reject("utxo_validation_failed"))

\* facilitator.js:388-396: ensureWalletReady and wallet.utxoIsValid resolve.
\* oracleThrows: either of them rejects.
UtxoIsValid(p, Throws, Answers) ==
  /\ pc[p] = "utxoIsValid"
  /\ \E oracleThrows \in Throws, isValid \in Answers :
       /\ seen' = [call |-> p, threw |-> oracleThrows,
                   spendable |-> ~oracleThrows /\ isValid, tx |-> NoTx]
       /\ IF oracleThrows
            THEN RevalidationFailed(p)
          ELSE IF ~isValid
            THEN Return(p, args[p], Reject("utxo_not_spendable"))
          ELSE /\ pc' = [pc EXCEPT ![p] = "getRawTx"]
               /\ UNCHANGED << args, utxoInfo, pending, result >>
  /\ UNCHANGED << utxoDbReady, chainChecked, client, db, now, path, spent, verify, settle, http >>

\* GetRawTx that stores the record with its balance set to zero when it
\* detects a previous spend.
GetRawTx_RecordsPreviousSpend(p, Throws, Txs) ==
  /\ pc[p] = "getRawTx"
  /\ \E oracleThrows \in Throws, rawTx \in Txs :
       LET tx == IF oracleThrows THEN NoTx ELSE rawTx
           verdict == rawTxVerdict(tx, args[p])
       IN
       /\ seen' = [call |-> p, threw |-> oracleThrows,
                   spendable |-> TRUE, tx |-> tx]
       /\ IF oracleThrows
            THEN RevalidationFailed(p)
          ELSE IF ~verdict.isValid
            THEN Return(p, args[p], Reject(verdict.invalidReason))
          ELSE IF path[p] = "warmStale"
            THEN LET rec == reconcile(Get(utxoInfo[p]), tx) IN
                 IF ~rec.ok
                   THEN IssuePut(p, Reject("utxo_previous_spend_detected"),
                                 [Get(utxoInfo[p]) EXCEPT
                                    !.remainingBalanceSat = 0,
                                    !.lastChecked = now])
                   ELSE Finish(p, warmDebit(rec.info, rec.currentRemainingSat,
                                            args[p].callCostSat, now))
          ELSE Finish(p, coldDebit(tx, args[p].callCostSat, now))
  /\ UNCHANGED << utxoDbReady, chainChecked, client, db, now, path, spent, verify,
                  settle, http >>

\* facilitator.js:398-460, then 484-513 (cold) or 548-592 (warm).
GetRawTx(p, Throws, Txs) ==
  /\ pc[p] = "getRawTx"
  /\ \E oracleThrows \in Throws, rawTx \in Txs :
       LET tx == IF oracleThrows THEN NoTx ELSE rawTx
           verdict == rawTxVerdict(tx, args[p])
       IN
       /\ seen' = [call |-> p, threw |-> oracleThrows,
                   spendable |-> TRUE, tx |-> tx]
       /\ IF oracleThrows
            THEN RevalidationFailed(p)
          ELSE IF ~verdict.isValid
            THEN Return(p, args[p], Reject(verdict.invalidReason))
          ELSE IF path[p] = "warmStale"
            THEN LET rec == reconcile(Get(utxoInfo[p]), tx) IN
                 IF ~rec.ok
                   THEN Return(p, args[p], Reject("utxo_previous_spend_detected"))
                   ELSE Finish(p, warmDebit(rec.info, rec.currentRemainingSat,
                                            args[p].callCostSat, now))
          ELSE Finish(p, coldDebit(tx, args[p].callCostSat, now))
  /\ UNCHANGED << utxoDbReady, chainChecked, client, db, now, path, spent, verify, settle, http >>

\* facilitator.js:513-519 and 592-598: utxoDb.put resolves, the call
\* returns its success result.
utxoDbPut(p) ==
  /\ pc[p] = "put"
  /\ db' = [db EXCEPT ![args[p].utxoId] = pending[p]]
  /\ spent' = [spent EXCEPT ![args[p].utxoId] = @ + args[p].callCostSat]
  /\ Return(p, args[p], result[p])
  /\ seen' = NoSeen
  /\ UNCHANGED << utxoDbReady, client, now, path, verify, settle, http >>

\* DbPut that stores every record under one key.
DbPut_OneKey(p) ==
  /\ pc[p] = "put"
  /\ db' = [db EXCEPT !["u1"] = pending[p]]
  /\ spent' = [spent EXCEPT ![args[p].utxoId] = @ + args[p].callCostSat]
  /\ Return(p, args[p], result[p])
  /\ seen' = NoSeen
  /\ UNCHANGED << utxoDbReady, chainChecked, client, now, path, verify, settle, http >>

\* utxoDb.put resolves.
DbPut(p) ==
  /\ utxoDbPut(p)
  /\ UNCHANGED chainChecked

\* utxoDb.put resolves, and the history of chain checks is kept: the record
\* of a call that went to the oracle (facilitator.js:388-460, on the cold
\* path and on the revalidation of 536-548) carries the time of that check
\* as its lastChecked; a call on the warm path without revalidation asked
\* the oracle nothing.
DbPutChecked(p) ==
  /\ utxoDbPut(p)
  /\ chainChecked' = [chainChecked EXCEPT ![args[p].utxoId] =
                        IF path[p] = "warmFresh"
                          THEN @
                          ELSE Get(pending[p]).lastChecked]

\* Environment: the clock advances.
Tick ==
  /\ now < MaxTicks * TickMs
  /\ now' = now + TickMs
  /\ seen' = NoSeen
  /\ UNCHANGED << utxoDbReady, chainChecked, client, db, pc, args, utxoInfo, pending, result,
                  path, spent, verify, settle, http >>

SettleFail(reason) ==
  [success |-> FALSE, errorReason |-> reason, transaction |-> ""]
SettleSuccess(txid) ==
  [success |-> TRUE, errorReason |-> "", transaction |-> txid]

\* verificationFailure that reports one reason for every rejection.
verificationFailure_Generic(r) ==
  SettleFail("invalid_payment")

\* facilitator.js:801-809: what settlePayment returns for a verification r
\* that is not valid.
verificationFailure(r) ==
  SettleFail(IF r.invalidReason = "" THEN "invalid_payment" ELSE r.invalidReason)

\* sendResult that lets an exception of wallet.send escape: settlePayment
\* returns nothing.
sendResult_ThrowEscapes(outcome) ==
  IF outcome = "throws" THEN NoSettleResult
  ELSE IF outcome = "none" THEN SettleFail("invalid_transaction_state")
  ELSE SettleSuccess("tx1")

\* facilitator.js:852-887: what settlePayment returns once wallet.send has
\* returned or thrown.
sendResult(outcome) ==
  IF outcome = "throws" THEN SettleFail("unexpected_settle_error")
  ELSE IF outcome = "none" THEN SettleFail("invalid_transaction_state")
  ELSE SettleSuccess("tx1")

\* part_000:396-423, 436-453 and 489-519: the response to a request whose
\* body was complete.  threw: verifyPayment or settlePayment threw (the
\* handler's catch); the response then carries error.message.
handlerResponse(threw, ok, reason) ==
  IF threw
    THEN [NoHttp EXCEPT !.stage = "done", !.status = 400, !.message = TRUE]
    ELSE [NoHttp EXCEPT !.stage = "done", !.status = 200,
                        !.reason = IF ok THEN "" ELSE reason]

\* facilitator.js:625-728: verifyPayment up to the first await inside
\* validateUtxo, or to the return of a check that fails before it.
verifyPayment(p, Envs, Reqs, Utxos, cap) ==
  /\ verify[p].stage \in {"idle", "done"}
  /\ pc[p] \in {"idle", "done"}
  /\ \E env \in Envs, req \in Reqs :
       LET reason == preLedgerVerdict(env, req)
           v == verifyRead(env, req, reason)
       IN
       IF reason # ""
         THEN /\ verify' = [verify EXCEPT ![p] =
                             [v EXCEPT !.stage = "done",
                                       !.result = VerifyReject(reason)]]
              /\ seen' = NoSeen
              /\ UNCHANGED << utxoDbReady, chainChecked, client, db, now, pc, args, utxoInfo,
                              pending, result, path, spent >>
         ELSE /\ verify' = [verify EXCEPT ![p] =
                             [v EXCEPT !.stage = "validateUtxo"]]
              /\ validateUtxo(p, Utxos, {req}, {TRUE}, cap)

\* facilitator.js:728-753: validateUtxo has returned; verifyPayment goes on
\* to the amount check and issues getBalance.
AfterValidateUtxo(p) ==
  /\ verify[p].stage = "validateUtxo"
  /\ pc[p] = "done"
  /\ LET reason == afterLedgerVerdict(verify[p], result[p]) IN
     verify' = [verify EXCEPT ![p] =
                  IF reason # ""
                    THEN [@ EXCEPT !.stage = "done",
                                   !.result = verifyRejection(reason,
                                                              result[p])]
                    ELSE [@ EXCEPT !.stage = "getBalance"]]
  /\ seen' = NoSeen
  /\ UNCHANGED << utxoDbReady, chainChecked, client, db, now, pc, args, utxoInfo, pending, result,
                  path, spent, settle, http >>

\* GetBalance that rejects the payment when the balance lookup throws.
GetBalance_FailsClosed(p, Throws, Answers) ==
  /\ verify[p].stage = "getBalance"
  /\ \E lookupThrows \in Throws, balance \in Answers :
       verify' = [verify EXCEPT ![p] =
         [@ EXCEPT
            !.stage = "done",
            !.balance = IF lookupThrows THEN Absent ELSE Some(balance),
            !.balanceThrew = lookupThrows,
            !.result = IF lookupThrows \/ balance < verify[p].value
                         THEN VerifyReject("insufficient_funds")
                         ELSE VerifyAccept]]
  /\ seen' = NoSeen
  /\ UNCHANGED << utxoDbReady, chainChecked, client, db, now, pc, args, utxoInfo,
                  pending, result, path, spent, settle, http >>

\* facilitator.js:752-772: bchjs.Blockchain.getBalance resolves or rejects.
GetBalance(p, Throws, Answers) ==
  /\ verify[p].stage = "getBalance"
  /\ \E lookupThrows \in Throws, balance \in Answers :
       verify' = [verify EXCEPT ![p] =
         [@ EXCEPT
            !.stage = "done",
            !.balance = IF lookupThrows THEN Absent ELSE Some(balance),
            !.balanceThrew = lookupThrows,
            !.result = IF ~lookupThrows /\ balance < verify[p].value
                         THEN VerifyReject("insufficient_funds")
                         ELSE VerifyAccept]]
  /\ seen' = NoSeen
  /\ UNCHANGED << utxoDbReady, chainChecked, client, db, now, pc, args, utxoInfo, pending, result,
                  path, spent, settle, http >>

\* facilitator.js:793-799: settlePayment calls verifyPayment.  The value and
\* payTo it reads at 812-814 are those of this request.
settlePayment(p, Envs, Reqs, Utxos, cap) ==
  /\ settle[p].stage \in {"idle", "done"}
  /\ \E env \in Envs, req \in Reqs :
       LET passes == preLedgerVerdict(env, req) = "" IN
       /\ settle' = [settle EXCEPT ![p] =
                       [NoSettle EXCEPT
                          !.stage = "verifyPayment",
                          !.nonce = IF passes THEN env.nonce ELSE "",
                          !.value = IF passes THEN env.value ELSE Dec(0),
                          !.payTo = IF passes THEN req.payTo ELSE Absent]]
       /\ verifyPayment(p, {env}, {req}, Utxos, cap)

\* facilitator.js:799-833: verifyPayment has returned; settlePayment returns
\* its rejection, or makes the wallet ready and issues wallet.getBalance.
AfterVerify(p) ==
  /\ settle[p].stage = "verifyPayment"
  /\ verify[p].stage = "done"
  /\ settle' = [settle EXCEPT ![p] =
                  IF ~verify[p].result.isValid
                    THEN [@ EXCEPT !.stage = "done",
                                   !.result = verificationFailure(verify[p].result)]
                    ELSE [@ EXCEPT !.stage = "getBalance",
                                   !.amount = parseInt(settle[p].value)]]
  /\ seen' = NoSeen
  /\ UNCHANGED << utxoDbReady, chainChecked, client, db, now, pc, args, utxoInfo, pending, result,
                  path, spent, verify, http >>

\* facilitator.js:816-852: initializeWallet and wallet.getBalance resolve,
\* or one of them (or getWallet) throws; with the balance in hand
\* settlePayment issues wallet.send.
FacilitatorBalance(p, Throws, Answers) ==
  /\ settle[p].stage = "getBalance"
  /\ \E walletThrows \in Throws, balance \in Answers :
       settle' = [settle EXCEPT ![p] =
         IF walletThrows
           THEN [@ EXCEPT !.stage = "done", !.threw = TRUE,
                          !.result = SettleFail("unexpected_settle_error")]
         ELSE IF balance < @.amount
           THEN [@ EXCEPT !.stage = "done",
                          !.facilitatorBalance = Some(balance),
                          !.result = SettleFail("insufficient_funds")]
         ELSE [@ EXCEPT !.stage = "send",
                        !.facilitatorBalance = Some(balance),
                        !.sends = @ + 1,
                        !.sent = Some([address |-> settle[p].payTo,
                                       amount |-> settle[p].amount])]]
  /\ seen' = NoSeen
  /\ UNCHANGED << utxoDbReady, chainChecked, client, db, now, pc, args, utxoInfo, pending, result,
                  path, spent, verify, http >>

\* Send that calls wallet.send again when it threw.
Send_Retries(p, Outcomes) ==
  /\ settle[p].stage = "send"
  /\ \E outcome \in Outcomes :
       settle' = [settle EXCEPT ![p] =
                    IF outcome = "throws"
                      THEN [@ EXCEPT !.sends = @ + 1]
                      ELSE [@ EXCEPT !.stage = "done",
                                     !.txid = IF outcome = "txid"
                                                THEN Some("tx1") ELSE Absent,
                                     !.result = sendResult(outcome)]]
  /\ seen' = NoSeen
  /\ UNCHANGED << utxoDbReady, chainChecked, client, db, now, pc, args, utxoInfo, pending, result,
                  path, spent, verify, http >>

\* Send that waits for a confirmation of the transaction before it returns.
Send_AwaitsConfirmation(p, Outcomes) ==
  /\ settle[p].stage = "send"
  /\ \E outcome \in Outcomes :
       settle' = [settle EXCEPT ![p] =
                    IF outcome = "txid"
                      THEN [@ EXCEPT !.stage = "confirming",
                                     !.txid = Some("tx1")]
                      ELSE [@ EXCEPT !.stage = "done",
                                     !.threw = (outcome = "throws"),
                                     !.result = sendResult(outcome)]]
  /\ seen' = NoSeen
  /\ UNCHANGED << utxoDbReady, chainChecked, client, db, now, pc, args, utxoInfo, pending, result,
                  path, spent, verify, http >>

\* facilitator.js:852-887: wallet.send returns or throws and settlePayment
\* returns.
Send(p, Outcomes) ==
  /\ settle[p].stage = "send"
  /\ \E outcome \in Outcomes :
       settle' = [settle EXCEPT ![p] =
                    [@ EXCEPT !.stage = "done",
                              !.txid = IF outcome = "txid"
                                         THEN Some("tx1") ELSE Absent,
                              !.threw = (outcome = "throws"),
                              !.result = sendResult(outcome)]]
  /\ seen' = NoSeen
  /\ UNCHANGED << utxoDbReady, chainChecked, client, db, now, pc, args, utxoInfo, pending, result,
                  path, spent, verify, http >>

\* Requests arrive one at a time; every input, every oracle answer and
\* every store failure can occur.
Next ==
  \/ \E p \in SeqCalls : Call(p, Requirements, BOOLEAN)
  \/ \E p \in SeqCalls : DbGet(p, BOOLEAN)
  \/ \E p \in SeqCalls : UtxoIsValid(p, BOOLEAN, BOOLEAN)
  \/ \E p \in SeqCalls : GetRawTx(p, BOOLEAN, RawTxs)
  \/ \E p \in SeqCalls : DbPut(p)
  \/ Tick

Spec == Init /\ [][Next]_vars

\* Requests overlap; the store and the oracle are healthy.
InitConcurrent ==
  /\ Init
  /\ utxoDbReady

NextConcurrent ==
  \/ \E p \in Calls : Call(p, HealthyRequirements, {TRUE})
  \/ \E p \in Calls : DbGet(p, {FALSE})
  \/ \E p \in Calls : UtxoIsValid(p, {FALSE}, {TRUE})
  \/ \E p \in Calls : GetRawTx(p, {FALSE}, HealthyTxs)
  \/ \E p \in Calls : DbPut(p)
  \/ Tick

SpecConcurrent == InitConcurrent /\ [][NextConcurrent]_vars

\* The worked example: calls of 100 sat, one at a time, on an output the
\* oracle reports at 1000 sat.
CallExample(p) ==
  /\ validateUtxo(p, SeqUtxoIds, {ExampleRequirements}, {TRUE},
                  ExampleTx.value + 1)
  /\ UNCHANGED << verify, settle, http >>

NextExample ==
  \/ \E p \in SeqCalls : CallExample(p)
  \/ \E p \in SeqCalls : DbGet(p, {FALSE})
  \/ \E p \in SeqCalls : UtxoIsValid(p, {FALSE}, {TRUE})
  \/ \E p \in SeqCalls : GetRawTx(p, {FALSE}, {ExampleTx})
  \/ \E p \in SeqCalls : DbPut(p)
  \/ Tick

SpecExample == InitConcurrent /\ [][NextExample]_vars

\* Two overlapping calls, each on its own funding reference.
CallOwnRef(p) ==
  /\ validateUtxo(p, {OwnRef[p]}, HealthyRequirements, {TRUE}, MaxSpent)
  /\ UNCHANGED << verify, settle, http >>

NextTwoRefs ==
  \/ \E p \in Calls : CallOwnRef(p)
  \/ \E p \in Calls : DbGet(p, {FALSE})
  \/ \E p \in Calls : UtxoIsValid(p, {FALSE}, BOOLEAN)
  \/ \E p \in Calls : GetRawTx(p, {FALSE}, HealthyTxs)
  \/ \E p \in Calls : DbPut(p)
  \/ Tick

SpecTwoRefs == InitConcurrent /\ [][NextTwoRefs]_vars

\* part_000:375-399 and 426-439: handleRequest for POST /verify or POST
\* /settle, up to the first await of the operation it calls, or to the 400
\* of a body that lacks a field.  The call slot holds this request from now
\* on.
handleRequest(p, Eps, Bods, Envs, Reqs, Utxos, cap) ==
  /\ http[p].stage \in {"idle", "done"}
  /\ \E endpoint \in Eps, body \in Bods :
       IF body # "complete"
         THEN /\ http' = [http EXCEPT ![p] =
                           [NoHttp EXCEPT !.stage = "done",
                                          !.endpoint = endpoint,
                                          !.body = body,
                                          !.status = 400]]
              /\ verify[p].stage \in {"idle", "done"}
              /\ settle[p].stage \in {"idle", "done"}
              /\ pc[p] \in {"idle", "done"}
              /\ verify' = [verify EXCEPT ![p] = NoVerify]
              /\ settle' = [settle EXCEPT ![p] = NoSettle]
              /\ seen' = NoSeen
              /\ UNCHANGED << utxoDbReady, chainChecked, client, db, now, pc, args, utxoInfo,
                              pending, result, path, spent >>
         ELSE /\ http' = [http EXCEPT ![p] =
                           [NoHttp EXCEPT !.stage = "awaiting",
                                          !.endpoint = endpoint,
                                          !.body = body]]
              /\ IF endpoint = "verify"
                   THEN /\ settle[p].stage \in {"idle", "done"}
                        /\ verifyPayment(p, Envs, Reqs, Utxos, cap)
                        /\ settle' = [settle EXCEPT ![p] = NoSettle]
                   ELSE settlePayment(p, Envs, Reqs, Utxos, cap)

\* part_000:396-414, 436-444 and 489-519: verifyPayment or settlePayment
\* has returned; the handler builds the response and the adapter sends it.
Respond(p) ==
  /\ http[p].stage = "awaiting"
  /\ IF http[p].endpoint = "verify"
       THEN /\ verify[p].stage = "done"
            /\ http' = [http EXCEPT ![p] =
                  [handlerResponse(FALSE, verify[p].result.isValid,
                                   verify[p].result.invalidReason)
                     EXCEPT !.endpoint = http[p].endpoint,
                            !.body = http[p].body]]
       ELSE /\ settle[p].stage = "done"
            /\ http' = [http EXCEPT ![p] =
                  [handlerResponse(FALSE, settle[p].result.success,
                                   settle[p].result.errorReason)
                     EXCEPT !.endpoint = http[p].endpoint,
                            !.body = http[p].body]]
  /\ seen' = NoSeen
  /\ UNCHANGED << utxoDbReady, chainChecked, client, db, now, pc, args, utxoInfo, pending, result,
                  path, spent, verify, settle >>

\* verifyPayment called on its own.
Verify(p) ==
  /\ verifyPayment(p, Envelopes, VerifyRequirements, SeqUtxoIds, MaxSpent)
  /\ UNCHANGED << settle, http >>

\* verifyPayment, one request at a time; the store answers, the oracle
\* answers (the output spendable or spent), the balance lookup may fail.
NextVerify ==
  \/ \E p \in SeqCalls : Verify(p)
  \/ \E p \in SeqCalls : DbGet(p, {FALSE})
  \/ \E p \in SeqCalls : UtxoIsValid(p, {FALSE}, BOOLEAN)
  \/ \E p \in SeqCalls : GetRawTx(p, {FALSE}, HealthyTxs)
  \/ \E p \in SeqCalls : DbPut(p)
  \/ \E p \in SeqCalls : AfterValidateUtxo(p)
  \/ \E p \in SeqCalls : GetBalance(p, BOOLEAN, Balances)
  \/ Tick

SpecVerify == Init /\ [][NextVerify]_vars

\* settlePayment called on its own.
Settle(p) ==
  /\ settlePayment(p, Envelopes, SettleRequirements, SeqUtxoIds, MaxSpent)
  /\ UNCHANGED http

\* settlePayment, one request at a time; the store answers, every oracle
\* and wallet call may fail.
NextSettle ==
  \/ \E p \in SeqCalls : Settle(p)
  \/ \E p \in SeqCalls : DbGet(p, {FALSE})
  \/ \E p \in SeqCalls : UtxoIsValid(p, {FALSE}, BOOLEAN)
  \/ \E p \in SeqCalls : GetRawTx(p, {FALSE}, HealthyTxs)
  \/ \E p \in SeqCalls : DbPut(p)
  \/ \E p \in SeqCalls : AfterValidateUtxo(p)
  \/ \E p \in SeqCalls : GetBalance(p, BOOLEAN, Balances)
  \/ \E p \in SeqCalls : AfterVerify(p)
  \/ \E p \in SeqCalls : FacilitatorBalance(p, BOOLEAN, FacilitatorBalances)
  \/ \E p \in SeqCalls : Send(p, SendOutcomes)
  \/ Tick

SpecSettle == Init /\ [][NextSettle]_vars

\* The worked example of settlement, one request at a time, on an output
\* the oracle reports at 1000 sat; payer and facilitator hold 1000 sat.
SettleExample(p) ==
  /\ settlePayment(p, ExampleEnvelopes, {ExampleSettleRequirements},
                   SeqUtxoIds, ExampleTx.value + 1)
  /\ UNCHANGED http

NextSettleExample ==
  \/ \E p \in SeqCalls : SettleExample(p)
  \/ \E p \in SeqCalls : DbGet(p, {FALSE})
  \/ \E p \in SeqCalls : UtxoIsValid(p, {FALSE}, {TRUE})
  \/ \E p \in SeqCalls : GetRawTx(p, {FALSE}, {ExampleTx})
  \/ \E p \in SeqCalls : DbPut(p)
  \/ \E p \in SeqCalls : AfterValidateUtxo(p)
  \/ \E p \in SeqCalls : GetBalance(p, {FALSE}, {ExampleTx.value})
  \/ \E p \in SeqCalls : AfterVerify(p)
  \/ \E p \in SeqCalls : FacilitatorBalance(p, {FALSE}, {ExampleTx.value})
  \/ \E p \in SeqCalls : Send(p, SendOutcomes)
  \/ Tick

SpecSettleExample == InitConcurrent /\ [][NextSettleExample]_vars

\* The request handler in front of verifyPayment and settlePayment, one
\* request at a time; the store answers, every oracle and wallet call may
\* fail.
NextHttp ==
  \/ \E p \in SeqCalls :
       handleRequest(p, Endpoints, Bodies, Envelopes, SettleRequirements,
                     SeqUtxoIds, MaxSpent)
  \/ \E p \in SeqCalls : DbGet(p, {FALSE})
  \/ \E p \in SeqCalls : UtxoIsValid(p, {FALSE}, BOOLEAN)
  \/ \E p \in SeqCalls : GetRawTx(p, {FALSE}, HealthyTxs)
  \/ \E p \in SeqCalls : DbPut(p)
  \/ \E p \in SeqCalls : AfterValidateUtxo(p)
  \/ \E p \in SeqCalls : GetBalance(p, BOOLEAN, Balances)
  \/ \E p \in SeqCalls : AfterVerify(p)
  \/ \E p \in SeqCalls : FacilitatorBalance(p, BOOLEAN, FacilitatorBalances)
  \/ \E p \in SeqCalls : Send(p, SendOutcomes)
  \/ \E p \in SeqCalls : Respond(p)
  \/ Tick

SpecHttp == Init /\ [][NextHttp]_vars

\* verifyPayment of an authorization with one of the validity windows.
VerifyWindow(p) ==
  /\ verifyPayment(p, WindowEnvelopes, WindowRequirements, SeqUtxoIds,
                   MaxSpent)
  /\ UNCHANGED << settle, http >>

\* The client builds a payment header for the requirements at the current
\* second and the facilitator verifies it.
VerifyCreated(p) ==
  /\ \E req \in WindowRequirements, m \in MaxTimeouts :
       verifyPayment(p, {createPaymentHeader(nowSec(now), req, m)}, {req},
                     SeqUtxoIds, MaxSpent)
  /\ UNCHANGED << settle, http >>

\* verifyPayment of authorizations inside and outside their validity
\* window, one request at a time, on a healthy store and oracle.
NextWindow ==
  \/ \E p \in SeqCalls : VerifyWindow(p)
  \/ \E p \in SeqCalls : VerifyCreated(p)
  \/ \E p \in SeqCalls : DbGet(p, {FALSE})
  \/ \E p \in SeqCalls : UtxoIsValid(p, {FALSE}, {TRUE})
  \/ \E p \in SeqCalls : GetRawTx(p, {FALSE}, HealthyTxs)
  \/ \E p \in SeqCalls : DbPut(p)
  \/ \E p \in SeqCalls : AfterValidateUtxo(p)
  \/ \E p \in SeqCalls : GetBalance(p, {FALSE}, {MaxValue})
  \/ Tick

SpecWindow == InitConcurrent /\ [][NextWindow]_vars

\* Successive validateUtxo calls on one funding reference, healthy store and
\* oracle, with the history of chain checks kept.
NextStale ==
  \/ \E p \in SeqCalls : Call(p, HealthyRequirements, {TRUE})
  \/ \E p \in SeqCalls : DbGet(p, {FALSE})
  \/ \E p \in SeqCalls : UtxoIsValid(p, {FALSE}, {TRUE})
  \/ \E p \in SeqCalls : GetRawTx(p, {FALSE}, HealthyTxs)
  \/ \E p \in SeqCalls : DbPutChecked(p)
  \/ Tick

SpecStale == InitConcurrent /\ [][NextStale]_vars

\* One API call as the resource server handles it: it has the payment
\* verified, and once the verification is valid it has the same payload
\* settled.
VerifyFirst(p) ==
  /\ verify[p].stage = "idle"
  /\ settle[p].stage = "idle"
  /\ verifyPayment(p, ExampleEnvelopes, {ExampleSettleRequirements},
                   SeqUtxoIds, ExampleTx.value + 1)
  /\ UNCHANGED << settle, http >>

SettleNext(p) ==
  /\ verify[p].stage = "done"
  /\ verify[p].result.isValid
  /\ settle[p].stage = "idle"
  /\ settlePayment(p, { env \in ExampleEnvelopes :
                          BigInt(env.value) = verify[p].value },
                   {ExampleSettleRequirements}, {args[p].utxoId},
                   ExampleTx.value + 1)
  /\ UNCHANGED http

NextApiCall ==
  \/ \E p \in SeqCalls : VerifyFirst(p)
  \/ \E p \in SeqCalls : SettleNext(p)
  \/ \E p \in SeqCalls : DbGet(p, {FALSE})
  \/ \E p \in SeqCalls : UtxoIsValid(p, {FALSE}, {TRUE})
  \/ \E p \in SeqCalls : GetRawTx(p, {FALSE}, {ExampleTx})
  \/ \E p \in SeqCalls : DbPut(p)
  \/ \E p \in SeqCalls : AfterValidateUtxo(p)
  \/ \E p \in SeqCalls : GetBalance(p, BOOLEAN, {ExampleTx.value})
  \/ \E p \in SeqCalls : AfterVerify(p)
  \/ \E p \in SeqCalls : FacilitatorBalance(p, {FALSE}, {ExampleTx.value})
  \/ \E p \in SeqCalls : Send(p, SendOutcomes)
  \/ Tick

SpecApiCall == InitConcurrent /\ [][NextApiCall]_vars

\* settlePayment calls that follow one another, on either call slot, for
\* authorizations of 100 sat that differ in their nonce only.
SettleReplay(p) ==
  /\ \A q \in Calls \ {p} :
       /\ settle[q].stage \in {"idle", "done"}
       /\ verify[q].stage \in {"idle", "done"}
       /\ pc[q] \in {"idle", "done"}
  /\ settlePayment(p, ReplayEnvelopes, {ExampleSettleRequirements},
                   SeqUtxoIds, ExampleTx.value + 1)
  /\ UNCHANGED http

NextReplay ==
  \/ \E p \in Calls : SettleReplay(p)
  \/ \E p \in Calls : DbGet(p, {FALSE})
  \/ \E p \in Calls : UtxoIsValid(p, {FALSE}, {TRUE})
  \/ \E p \in Calls : GetRawTx(p, {FALSE}, {ExampleTx})
  \/ \E p \in Calls : DbPut(p)
  \/ \E p \in Calls : AfterValidateUtxo(p)
  \/ \E p \in Calls : GetBalance(p, {FALSE}, {ExampleTx.value})
  \/ \E p \in Calls : AfterVerify(p)
  \/ \E p \in Calls : FacilitatorBalance(p, {FALSE}, {ExampleTx.value})
  \/ \E p \in Calls : Send(p, SendOutcomes)
  \/ Tick

SpecReplay == InitConcurrent /\ [][NextReplay]_vars

\* The facilitator's state, which the client's steps leave alone.
ServerUnchanged ==
  UNCHANGED << utxoDbReady, chainChecked, db, seen, pc, args, utxoInfo,
               pending, result, path, spent, verify, settle, http >>

\* The caller sends a request through the axios instance.
ClientRequest(r) ==
  /\ client[r].stage = "idle"
  /\ \E config \in Configs :
       client' = [client EXCEPT ![r] = [NoClient EXCEPT !.stage = "inFlight",
                                                         !.sends = 1,
                                                         !.config = config]]
  /\ ServerUnchanged
  /\ UNCHANGED now

\* The reply to the latest send arrives and runs through the interceptor.
ClientReply(r) ==
  /\ client[r].stage = "inFlight"
  /\ \E reply \in Replies :
       client' = [client EXCEPT ![r] = interceptor(client[r], reply)]
  /\ ServerUnchanged
  /\ UNCHANGED now

\* README.md:166-180: createPaymentHeader resolves or throws (signMessage
\* throws); the request is marked as a retry, gets its X-PAYMENT header and
\* goes out again.
ClientRetry(r) ==
  /\ client[r].stage = "paying"
  /\ \E signs \in BOOLEAN :
       client' =
         [client EXCEPT ![r] =
            IF ~signs
              THEN [client[r] EXCEPT !.stage = "rejected",
                                     !.outcome = "paymentError"]
              ELSE [client[r] EXCEPT !.stage = "inFlight",
                             !.is402Retry = TRUE,
                             !.xPayment =
                               Some(createPaymentHeader(
                                      nowSec(now), Get(client[r].selected),
                                      Get(client[r].selected).maxTimeoutSeconds)),
                             !.sends = @ + 1]]
  /\ ServerUnchanged
  /\ UNCHANGED now

\* Two requests of one client against a server that answers anything.
NextClient ==
  \/ \E r \in Requests : ClientRequest(r)
  \/ \E r \in Requests : ClientReply(r)
  \/ \E r \in Requests : ClientRetry(r)
  \/ Tick

SpecClient == InitConcurrent /\ [][NextClient]_vars

\* ------------------------------------------------------------ properties

\* The stored record of a funding reference.
Rec(u) == Get(db[u])

\* C1: after every successful debit the stored record satisfies
\* remainingBalance + totalDebited = originalValue (transactionValueSat).
C1_BalanceEquation ==
  \A u \in UtxoIds :
    IsPresent(db[u]) =>
      Rec(u).remainingBalanceSat + Rec(u).totalDebitedSat
        = Rec(u).transactionValueSat

\* The balance a finished warm-path call was charged against, as its result
\* reports it: the new balance plus the cost when it succeeded, the balance
\* it found when it was rejected for it.
ChargedBalance(p) ==
  IF result[p].isValid
    THEN Get(result[p].remainingBalanceSat) + args[p].callCostSat
    ELSE Get(result[p].remainingBalanceSat)

\* C2: two debits of cost C that were both charged against the same funding
\* reference at remaining balance 1.5C end with exactly one success and one
\* insufficient_utxo_balance rejection, never with two successes.
C2_ExactlyOneSucceeds ==
  \A p \in Calls : \A q \in Calls \ {p} :
    ( /\ pc[p] = "done" /\ pc[q] = "done"
      /\ path[p] \in {"warmFresh", "warmStale"}
      /\ path[q] \in {"warmFresh", "warmStale"}
      /\ args[p].utxoId = args[q].utxoId
      /\ args[p].callCostSat = args[q].callCostSat
      /\ args[p].callCostSat > 0
      /\ IsPresent(result[p].remainingBalanceSat)
      /\ IsPresent(result[q].remainingBalanceSat)
      /\ 2 * ChargedBalance(p) = 3 * args[p].callCostSat
      /\ 2 * ChargedBalance(q) = 3 * args[q].callCostSat )
    => \/ /\ result[p].isValid
          /\ result[q].invalidReason = "insufficient_utxo_balance"
       \/ /\ result[q].isValid
          /\ result[p].invalidReason = "insufficient_utxo_balance"

\* C3: the sum of the call costs of the debits that returned success never
\* exceeds the value observed on-chain for the funding object.
C3_NoDoubleSpend ==
  \A u \in UtxoIds :
    IsPresent(db[u]) => spent[u] <= Rec(u).transactionValueSat

RevalidationOk(tx, a) ==
  /\ tx.hasOutput
  /\ tx.confirmations >= a.minConfirmations
  /\ IsPresent(a.payTo) => tx.address = Get(a.payTo)
  /\ tx.finite
  /\ tx.value > 0

\* Call p leaves getRawTransaction in this step, the oracle having answered.
RawTxAnswered(p) ==
  /\ pc[p] = "getRawTx"
  /\ pc'[p] # "getRawTx"
  /\ seen'.call = p
  /\ ~seen'.threw

\* Call p returns the rejection `reason` in this step and the store is as
\* it was.
RejectedUntouched(p, reason) ==
  /\ pc'[p] = "done"
  /\ ~result'[p].isValid
  /\ result'[p].invalidReason = reason
  /\ db' = db

\* C5: a warm-path debit that would drive remainingBalance negative returns
\* insufficient_utxo_balance and leaves the stored record identical in every
\* field, with or without a revalidation before it; every repetition of the
\* call is such a step again.
C5_RejectionLeavesRecord ==
  [][\A p \in Calls :
       LET u == args[p].utxoId
           cost == args[p].callCostSat
           info == Get(utxoInfo[p])
           ceiling == seen'.tx.value - info.totalDebitedSat
           balance == IF ceiling < info.remainingBalanceSat
                        THEN ceiling ELSE info.remainingBalanceSat
           fresh == /\ pc[p] = "get" /\ path'[p] = "warmFresh"
                    /\ Rec(u).remainingBalanceSat - cost < 0
           stale == /\ RawTxAnswered(p) /\ path[p] = "warmStale"
                    /\ RevalidationOk(seen'.tx, args[p])
                    /\ ceiling >= 0
                    /\ balance - cost < 0
       IN (fresh \/ stale) =>
            /\ RejectedUntouched(p, "insufficient_utxo_balance")
            /\ IsPresent(db'[u])
     ]_vars

\* A revalidated warm-path call has just been rejected for its cost.
C5_Witness ==
  \E p \in Calls :
    /\ pc[p] = "done"
    /\ path[p] = "warmStale"
    /\ seen.call = p
    /\ result[p].invalidReason = "insufficient_utxo_balance"
    /\ IsPresent(db[args[p].utxoId])
    /\ Rec(args[p].utxoId).remainingBalanceSat > 0

\* C6: a call whose store lookup failed for a reason other than a missing
\* key returns unexpected_utxo_validation_error; it does not go on as if the
\* funding reference were unknown.
C6_LookupFailureIsFatal ==
  \A p \in Calls :
    path[p] = "coldGetFailed" =>
      /\ pc[p] = "done"
      /\ result[p].invalidReason = "unexpected_utxo_validation_error"

\* C7: on the cold path a revalidation that finds the output not spendable,
\* short of confirmations, paid to another address than payTo, or of a
\* non-positive or non-finite value (the first of these that applies, in
\* this order) returns utxo_not_spendable, insufficient_confirmations,
\* recipient_mismatch or invalid_utxo_value, and the store still has no
\* record for the funding reference.
C7_ColdRejections ==
  [][\A p \in Calls :
       LET u == args[p].utxoId
           tx == seen'.tx
           a == args[p]
           cold == path[p] \in {"cold", "coldGetFailed"}
           noRecord == path[p] = "cold" => ~IsPresent(db'[u])
           confirmed == tx.hasOutput /\ tx.confirmations >= a.minConfirmations
           paid == IsPresent(a.payTo) => tx.address = Get(a.payTo)
       IN
       /\ ( /\ cold /\ pc[p] = "utxoIsValid" /\ seen'.call = p
            /\ ~seen'.threw /\ ~seen'.spendable )
          => RejectedUntouched(p, "utxo_not_spendable") /\ noRecord
       /\ ( /\ cold /\ RawTxAnswered(p)
            /\ tx.hasOutput /\ tx.confirmations < a.minConfirmations )
          => RejectedUntouched(p, "insufficient_confirmations") /\ noRecord
       /\ ( /\ cold /\ RawTxAnswered(p) /\ confirmed
            /\ IsPresent(a.payTo) /\ tx.address # Get(a.payTo) )
          => RejectedUntouched(p, "recipient_mismatch") /\ noRecord
       /\ ( /\ cold /\ RawTxAnswered(p) /\ confirmed /\ paid
            /\ (~tx.finite \/ tx.value <= 0) )
          => RejectedUntouched(p, "invalid_utxo_value") /\ noRecord
     ]_vars

\* A first-sighting call has just been rejected for a zero-valued output
\* that is otherwise in order, and the store has no record.
C7_Witness ==
  \E p \in Calls :
    /\ pc[p] = "done"
    /\ path[p] = "cold"
    /\ seen.call = p
    /\ seen.tx.hasOutput /\ seen.tx.finite /\ seen.tx.value = 0
    /\ result[p].invalidReason = "invalid_utxo_value"
    /\ ~IsPresent(db[args[p].utxoId])

\* C8: on the cold path, when revalidation succeeds and observedValue -
\* callCost is negative, the call returns insufficient_utxo_balance and no
\* record is persisted.
C8_ColdUnaffordable ==
  [][\A p \in Calls :
       LET u == args[p].utxoId IN
       ( /\ RawTxAnswered(p)
         /\ path[p] \in {"cold", "coldGetFailed"}
         /\ RevalidationOk(seen'.tx, args[p])
         /\ seen'.tx.value - args[p].callCostSat < 0 )
       => /\ RejectedUntouched(p, "insufficient_utxo_balance")
          /\ path[p] = "cold" => ~IsPresent(db'[u])
     ]_vars

\* A first-sighting call has just been rejected because the observed value
\* does not cover its cost.
C8_Witness ==
  \E p \in Calls :
    /\ pc[p] = "done"
    /\ path[p] = "cold"
    /\ seen.call = p
    /\ seen.tx.value > 0
    /\ seen.tx.value < args[p].callCostSat
    /\ result[p].invalidReason = "insufficient_utxo_balance"
    /\ ~IsPresent(db[args[p].utxoId])

\* C9: on the cold path, when revalidation succeeds and observedValue >=
\* callCost, the call puts one record for the funding reference with
\* originalValue = observedValue, totalDebited = callCost and
\* remainingBalance = observedValue - callCost, stores exactly that record
\* and returns success with that remaining balance.
C9_ColdCreatesRecord ==
  [][\A p \in Calls :
       LET u == args[p].utxoId
           cost == args[p].callCostSat
           cold == path[p] \in {"cold", "coldGetFailed"}
       IN
       /\ ( /\ RawTxAnswered(p) /\ cold
            /\ RevalidationOk(seen'.tx, args[p])
            /\ seen'.tx.value >= cost )
          => /\ pc'[p] = "put"
             /\ IsPresent(pending'[p])
             /\ Get(pending'[p]).transactionValueSat = seen'.tx.value
             /\ Get(pending'[p]).totalDebitedSat = cost
             /\ Get(pending'[p]).remainingBalanceSat = seen'.tx.value - cost
             /\ db' = db
       /\ ( pc[p] = "put" /\ pc'[p] # "put" /\ cold )
          => /\ pc'[p] = "done"
             /\ db' = [db EXCEPT ![u] = pending[p]]
             /\ result'[p].isValid
             /\ result'[p].remainingBalanceSat
                  = Some(Get(pending[p]).remainingBalanceSat)
     ]_vars

\* A first-sighting call has returned success and its record is stored.
C9_Witness ==
  \E p \in Calls :
    /\ pc[p] = "done"
    /\ path[p] = "cold"
    /\ result[p].isValid
    /\ args[p].callCostSat > 0
    /\ IsPresent(db[args[p].utxoId])
    /\ Rec(args[p].utxoId).totalDebitedSat = args[p].callCostSat
    /\ Some(Rec(args[p].utxoId).remainingBalanceSat)
         = result[p].remainingBalanceSat

\* C10: on the warm path a successful revalidation whose on-chain ceiling
\* (observed value minus the record's totalDebited) is negative makes the
\* call return utxo_previous_spend_detected with the record unchanged; the
\* debit is never continued against a balance clamped to zero.
C10_PreviousSpendDetected ==
  [][\A p \in Calls :
       ( /\ RawTxAnswered(p)
         /\ path[p] = "warmStale"
         /\ RevalidationOk(seen'.tx, args[p])
         /\ seen'.tx.value - Get(utxoInfo[p]).totalDebitedSat < 0 )
       => /\ RejectedUntouched(p, "utxo_previous_spend_detected")
          /\ IsPresent(db'[args[p].utxoId])
     ]_vars

\* A revalidated call has just been rejected because the output is now
\* worth less than the record has debited.
C10_Witness ==
  \E p \in Calls :
    /\ pc[p] = "done"
    /\ path[p] = "warmStale"
    /\ seen.call = p
    /\ result[p].invalidReason = "utxo_previous_spend_detected"
    /\ IsPresent(db[args[p].utxoId])
    /\ seen.tx.value < Rec(args[p].utxoId).totalDebitedSat

\* C11: on the warm path with a successful revalidation whose on-chain
\* ceiling (observed value minus the record's totalDebited) is not negative,
\* the call cost is subtracted from min(cached remainingBalance, ceiling):
\* a ceiling below the cached balance clamps it down, a ceiling above it
\* never raises it.
C11_ClampToCeiling ==
  [][\A p \in Calls :
       LET info == Get(utxoInfo[p])
           cost == args[p].callCostSat
           ceiling == seen'.tx.value - info.totalDebitedSat
           balance == IF ceiling < info.remainingBalanceSat
                        THEN ceiling ELSE info.remainingBalanceSat
       IN
       ( /\ RawTxAnswered(p)
         /\ path[p] = "warmStale"
         /\ RevalidationOk(seen'.tx, args[p])
         /\ ceiling >= 0 )
       => IF balance - cost < 0
            THEN /\ RejectedUntouched(p, "insufficient_utxo_balance")
                 /\ result'[p].remainingBalanceSat = Some(balance)
            ELSE /\ pc'[p] = "put"
                 /\ result'[p].isValid
                 /\ result'[p].remainingBalanceSat = Some(balance - cost)
                 /\ Get(pending'[p]).remainingBalanceSat = balance - cost
                 /\ Get(pending'[p]).totalDebitedSat
                      = info.totalDebitedSat + cost
     ]_vars

\* A revalidated call is about to put a record whose balance was clamped
\* down: the stored balance exceeds the on-chain ceiling, and the record to
\* put holds the ceiling less the call cost.
C11_Witness ==
  \E p \in Calls :
    LET u == args[p].utxoId IN
    /\ pc[p] = "put"
    /\ path[p] = "warmStale"
    /\ seen.call = p
    /\ IsPresent(db[u])
    /\ seen.tx.value - Rec(u).totalDebitedSat >= 0
    /\ seen.tx.value - Rec(u).totalDebitedSat < Rec(u).remainingBalanceSat
    /\ Get(pending[p]).remainingBalanceSat
         = seen.tx.value - Rec(u).totalDebitedSat - args[p].callCostSat

\* C12: a warm-path debit whose record is still fresh (now - lastChecked <=
\* the revalidation threshold) is decided in the step in which the lookup
\* resolves, without a chain-oracle step: it is rejected with
\* insufficient_utxo_balance when the cached remainingBalance is below the
\* call cost and otherwise puts the cached record less the call cost.
C12_FreshSkipsOracle ==
  [][\A p \in Calls :
       LET u == args[p].utxoId
           cost == args[p].callCostSat
       IN
       ( /\ pc[p] = "get"
         /\ pc'[p] # "get"
         /\ path'[p] # "coldGetFailed"
         /\ IsPresent(db[u])
         /\ now - Rec(u).lastChecked <= revalidateThresholdMs )
       => /\ seen' = NoSeen
          /\ pc'[p] \in {"put", "done"}
          /\ IF Rec(u).remainingBalanceSat < cost
               THEN RejectedUntouched(p, "insufficient_utxo_balance")
               ELSE /\ pc'[p] = "put"
                    /\ result'[p] = Accept(Rec(u).remainingBalanceSat - cost)
                    /\ Get(pending'[p]).remainingBalanceSat
                         = Rec(u).remainingBalanceSat - cost
                    /\ Get(pending'[p]).totalDebitedSat
                         = Rec(u).totalDebitedSat + cost
                    /\ Get(pending'[p]).transactionValueSat
                         = Rec(u).transactionValueSat
     ]_vars

\* A debit against a fresh record has returned success without an oracle
\* step, some time after the record was last checked.
C12_Witness ==
  \E p \in Calls :
    LET u == args[p].utxoId IN
    /\ pc[p] = "done"
    /\ path[p] = "warmFresh"
    /\ result[p].isValid
    /\ args[p].callCostSat > 0
    /\ IsPresent(db[u])
    /\ Rec(u).totalDebitedSat > args[p].callCostSat

\* C13: on the cold path, when the chain oracle is unavailable (utxoIsValid
\* or getRawTransaction throws), the call returns isValid:false, nothing is
\* written, and a funding reference that had no record still has none.
C13_ColdOracleUnavailable ==
  [][\A p \in Calls :
       ( /\ pc[p] \in {"utxoIsValid", "getRawTx"}
         /\ path[p] \in {"cold", "coldGetFailed"}
         /\ seen'.call = p
         /\ seen'.threw )
       => /\ RejectedUntouched(p, "utxo_validation_failed")
          /\ path[p] = "cold" => ~IsPresent(db'[args[p].utxoId])
     ]_vars

\* A first-sighting call has just been rejected because the oracle threw,
\* and the store has no record.
C13_Witness ==
  \E p \in Calls :
    /\ pc[p] = "done"
    /\ path[p] = "cold"
    /\ seen.call = p
    /\ seen.threw
    /\ ~result[p].isValid
    /\ ~IsPresent(db[args[p].utxoId])

C15_ElevenCalls ==
  \A p \in SeqCalls :
    LET u == args[p].utxoId
        k == spent[u] \div 100
    IN
    pc[p] = "done" =>
      /\ spent[u] = 100 * k
      /\ IsPresent(db[u])
      /\ IF result[p].isValid
           THEN /\ k \in 1..10
                /\ Rec(u).remainingBalanceSat = 1000 - 100 * k
                /\ Rec(u).totalDebitedSat = 100 * k
                /\ result[p].remainingBalanceSat = Some(1000 - 100 * k)
                /\ k = 1 => Rec(u).remainingBalanceSat = 900
                /\ k = 10 => Rec(u).remainingBalanceSat = 0
           ELSE /\ k = 10
                /\ result[p].invalidReason = "insufficient_utxo_balance"
                /\ Rec(u).remainingBalanceSat = 0
                /\ Rec(u).totalDebitedSat = 1000

\* The eleventh call has been rejected: ten calls were charged, the record
\* is at remainingBalance 0, totalDebited 1000.
C15_Witness ==
  \E p \in SeqCalls :
    /\ pc[p] = "done"
    /\ result[p].invalidReason = "insufficient_utxo_balance"
    /\ spent[args[p].utxoId] = 1000
    /\ Rec(args[p].utxoId).remainingBalanceSat = 0
    /\ Rec(args[p].utxoId).totalDebitedSat = 1000

\* C16: with overlapping debits on different funding references, every step
\* changes the store at most at the funding reference of the call that
\* takes it (a rejected call changes nothing), and each reference's record
\* is the one its own debits alone produce: it accounts for exactly the
\* successful debits on that reference, and a successful call reports that
\* record's balance.
C16_OtherRefsUntouched ==
  /\ [](\A u \in UtxoIds :
          IsPresent(db[u]) =>
            /\ Rec(u).totalDebitedSat = spent[u]
            /\ Rec(u).remainingBalanceSat = MaxValue - spent[u])
  /\ [][\A p \in Calls :
          (pc'[p] # pc[p]) =>
            /\ \A u \in UtxoIds \ {args'[p].utxoId} : db'[u] = db[u]
            /\ ~result'[p].isValid => db' = db
            /\ (pc'[p] = "done" /\ result'[p].isValid) =>
                 /\ db'[args[p].utxoId] = pending[p]
                 /\ result'[p].remainingBalanceSat
                      = Some(Get(pending[p]).remainingBalanceSat)
       ]_vars

\* Both funding references have a record, each charged by its own call; one
\* call has returned success, the other a rejection.
C16_Witness ==
  /\ IsPresent(db["u1"]) /\ IsPresent(db["u2"])
  /\ spent["u1"] > 0 /\ spent["u2"] > 0
  /\ pc["c1"] = "done" /\ result["c1"].isValid
  /\ pc["c2"] = "done" /\ ~result["c2"].isValid

\* Call p's verifyPayment starts in this step.
VerifyEntered(p) ==
  /\ verify[p].stage \in {"idle", "done"}
  /\ verify'[p] # verify[p]

\* The step leaves the ledger and every validateUtxo call as they were and
\* asks the oracle nothing.
LedgerUntouched ==
  /\ seen' = NoSeen
  /\ UNCHANGED << db, spent, pc, args, utxoInfo, pending, result, path >>

\* C17: a verifyPayment whose signature is valid, whose authorization value
\* is at least maxAmountRequired and whose funding object, seen for the
\* first time, passed validateUtxo (spendable, confirmed, paid to payTo,
\* worth the call cost) returns isValid:true, whatever getBalance answers.
C17_VerifyAcceptsFunded ==
  \A p \in Calls :
    ( /\ verify[p].stage = "done"
      /\ verify[p].signature = "valid"
      /\ IsPresent(verify[p].maxAmountRequired)
      /\ verify[p].value >= Get(verify[p].maxAmountRequired)
      /\ path[p] = "cold"
      /\ result[p].isValid )
    => verify[p].result.isValid

\* C18: verifyPayment lets a request (envelope and requirements of the same
\* scheme and network) past the scheme and network checks exactly when that
\* (scheme, network) is one of listSupportedKinds, and rejects it with
\* invalid_scheme or invalid_network otherwise.
C18_SupportedKindsAccepted ==
  \A p \in Calls :
    ( /\ verify[p].stage = "done"
      /\ verify[p].reqNetwork = verify[p].network
      /\ verify[p].reqScheme = verify[p].scheme )
    => ( verify[p].result.invalidReason
           \notin {"invalid_scheme", "invalid_network"}
         <=> [scheme |-> verify[p].scheme, network |-> verify[p].network]
               \in listSupportedKinds )

\* C19: a verifyPayment whose request passes the scheme and network checks
\* and whose envelope lacks the payload, the authorization or the signature
\* returns invalid_payload in its first step; the step asks the oracle
\* nothing, starts no validateUtxo and leaves the store as it was.
C19_MissingPayloadNoEffects ==
  [][\A p \in Calls :
       ( /\ VerifyEntered(p)
         /\ verify'[p].network = "bch" /\ verify'[p].reqNetwork = "bch"
         /\ verify'[p].scheme = "utxo" /\ verify'[p].reqScheme = "utxo"
         /\ verify'[p].shape \in {"noPayload", "noAuthorization", "noSignature"} )
       => /\ verify'[p].stage = "done"
          /\ verify'[p].result = VerifyReject("invalid_payload")
          /\ LedgerUntouched
     ]_vars

\* A request without a signature has been rejected with invalid_payload
\* while the funding reference has a record with a balance left.
C19_Witness ==
  \E p \in Calls :
    /\ verify[p].stage = "done"
    /\ verify[p].shape = "noSignature"
    /\ verify[p].result.invalidReason = "invalid_payload"
    /\ IsPresent(db["u1"])
    /\ Rec("u1").remainingBalanceSat > 0

NothingRuns(p) ==
  /\ LedgerUntouched
  /\ settle'[p].sends = settle[p].sends

\* C21: within one settlePayment call the stages run in the order
\* structure, signature, funding (validateUtxo), amount, balance, broadcast:
\* validateUtxo starts only for a well-formed request with a valid
\* signature, the amount check passes only after validateUtxo returned
\* isValid:true, wallet.send is called only after verifyPayment returned
\* isValid:true, and success is returned only by the step in which
\* wallet.send answers.  Once verifyPayment has rejected, no step of the call
\* debits, queries the oracle or broadcasts, and the call returns that
\* rejection; nothing runs after the call has returned.
C21_PipelineOrder ==
  [][\A p \in Calls :
       /\ ( pc[p] \in {"idle", "done"} /\ pc'[p] \notin {"idle", "done"} )
          => /\ verify'[p].stage = "validateUtxo"
             /\ verify'[p].network = "bch" /\ verify'[p].scheme = "utxo"
             /\ verify'[p].shape = "complete"
             /\ verify'[p].signature = "valid"
       /\ ( verify[p].stage # "getBalance" /\ verify'[p].stage = "getBalance" )
          => /\ verify[p].stage = "validateUtxo"
             /\ pc[p] = "done"
             /\ result[p].isValid
             /\ verify[p].value >= Get(verify[p].maxAmountRequired)
       /\ ( settle'[p].sends > settle[p].sends )
          => /\ settle[p].stage = "getBalance"
             /\ settle[p].sends = 0
             /\ verify[p].stage = "done"
             /\ verify[p].result.isValid
       /\ ( settle'[p].result.success /\ settle'[p] # settle[p] )
          => /\ settle[p].stage = "send"
             /\ settle'[p].stage = "done"
       /\ ( /\ settle[p].stage = "verifyPayment"
            /\ verify[p].stage = "done"
            /\ ~verify[p].result.isValid )
          => /\ NothingRuns(p)
             /\ settle'[p] # settle[p] =>
                  /\ settle'[p].stage = "done"
                  /\ settle'[p].result
                       = SettleFail(verify[p].result.invalidReason)
       /\ ( settle[p].stage = "done" /\ settle'[p].stage = "done" )
          => /\ NothingRuns(p)
             /\ settle'[p] = settle[p]
     ]_vars

\* A settlePayment call has returned the rejection of the funding stage
\* without a broadcast.
C21_Witness ==
  \E p \in Calls :
    /\ settle[p].stage = "done"
    /\ verify[p].signature = "valid"
    /\ pc[p] = "done"
    /\ ~result[p].isValid
    /\ result[p].invalidReason = "utxo_not_spendable"
    /\ settle[p].result = SettleFail(result[p].invalidReason)
    /\ settle[p].sends = 0

\* C22: every settlePayment call starts a verifyPayment of its own request;
\* when that verification is not valid the call returns success:false with
\* the verification's reason as errorReason, and wallet.send was not called.
C22_SettleReverifies ==
  /\ [](\A p \in Calls :
          ( settle[p].stage = "done" /\ ~verify[p].result.isValid )
          => /\ ~settle[p].result.success
             /\ settle[p].result.errorReason = verify[p].result.invalidReason
             /\ settle[p].result.errorReason # ""
             /\ settle[p].sends = 0
             /\ ~IsPresent(settle[p].sent))
  /\ [][\A p \in Calls :
          ( settle[p].stage \in {"idle", "done"} /\ settle'[p].stage # settle[p].stage )
          => /\ settle'[p].stage = "verifyPayment"
             /\ verify'[p].stage \in {"validateUtxo", "done"}
             /\ verify'[p].stage = "done" => ~verify'[p].result.isValid
             /\ verify'[p].stage = "validateUtxo" =>
                  /\ verify'[p].value = BigInt(settle'[p].value)
                  /\ pc'[p] \in {"get", "done"}
       ]_vars

\* A settlePayment call has returned the rejection of its own verification,
\* the payer's balance being too low.
C22_Witness ==
  \E p \in Calls :
    /\ settle[p].stage = "done"
    /\ settle[p].result = SettleFail("insufficient_funds")
    /\ verify[p].result.invalidReason = "insufficient_funds"
    /\ settle[p].sends = 0

C24_FacilitatorFundsChecked ==
  \A p \in Calls :
    ( /\ settle[p].stage \in {"send", "done"}
      /\ IsPresent(settle[p].facilitatorBalance)
      /\ Get(settle[p].facilitatorBalance) < BigInt(settle[p].value) )
    => /\ settle[p].stage = "done"
       /\ settle[p].result = SettleFail("insufficient_funds")
       /\ settle[p].sends = 0

\* C25: a settlePayment that returned success:true has made one broadcast,
\* of exactly the authorized value to requirements.payTo, and its
\* transaction is the identifier wallet.send returned; a settlePayment whose
\* wallet.send returned no identifier returned invalid_transaction_state.
C25_ExactTransfer ==
  \A p \in Calls :
    settle[p].stage = "done" =>
      /\ settle[p].result.success =>
           /\ settle[p].sends = 1
           /\ settle[p].sent = Some([address |-> settle[p].payTo,
                                     amount |-> BigInt(settle[p].value)])
           /\ IsPresent(settle[p].txid)
           /\ settle[p].result.transaction = Get(settle[p].txid)
      /\ ( settle[p].sends = 1 /\ ~settle[p].threw /\ ~IsPresent(settle[p].txid) )
           => settle[p].result = SettleFail("invalid_transaction_state")

\* C26: an exception of the wallet's initialization, of the facilitator
\* balance query or of wallet.send ends the settlePayment call in that step
\* with success:false, errorReason unexpected_settle_error; every finished
\* call has returned a result.
C26_SettleCatchesAll ==
  /\ [](\A p \in Calls :
          settle[p].stage = "done" =>
            \/ settle[p].result.success
            \/ settle[p].result.errorReason # "")
  /\ [][\A p \in Calls :
          ( settle'[p].threw /\ settle'[p] # settle[p] )
          => /\ settle[p].stage \in {"getBalance", "send"}
             /\ settle'[p].stage = "done"
             /\ settle'[p].result = SettleFail("unexpected_settle_error")
       ]_vars

\* The wallet threw before any broadcast and the call has returned.
C26_Witness ==
  \E p \in Calls :
    /\ settle[p].stage = "done"
    /\ settle[p].threw
    /\ settle[p].sends = 0
    /\ settle[p].result.errorReason = "unexpected_settle_error"

\* C27: a settlePayment call calls wallet.send at most once; when wallet.send
\* throws, the call returns a failure in that step and sends nothing again.
C27_BroadcastAtMostOnce ==
  /\ [](\A p \in Calls : settle[p].sends <= 1)
  /\ [][\A p \in Calls :
          ( settle[p].stage = "send" /\ settle'[p] # settle[p]
            /\ ~IsPresent(settle'[p].txid) )
          => /\ settle'[p].stage = "done"
             /\ ~settle'[p].result.success
             /\ settle'[p].result.errorReason # ""
             /\ settle'[p].sends = settle[p].sends
       ]_vars

\* wallet.send threw after it was handed the output, and the call has
\* returned a failure.
C27_Witness ==
  \E p \in Calls :
    /\ settle[p].stage = "done"
    /\ settle[p].threw
    /\ settle[p].sends = 1
    /\ IsPresent(settle[p].sent)
    /\ ~settle[p].result.success

\* C28: when wallet.send returns an identifier, settlePayment returns
\* success with that identifier in the same step, with no confirmation
\* query, although the wallet's minConfirmations is 1.
C28_NoConfirmationWait ==
  [][\A p \in Calls :
       ( settle[p].stage = "send" /\ IsPresent(settle'[p].txid) )
       => /\ DEFAULT_MIN_CONFIRMATIONS > 0
          /\ settle'[p].stage = "done"
          /\ settle'[p].result = SettleSuccess(Get(settle'[p].txid))
          /\ seen' = NoSeen
     ]_vars

\* A settlePayment call has returned success with the identifier of its
\* broadcast.
C28_Witness ==
  \E p \in Calls :
    /\ settle[p].stage = "done"
    /\ settle[p].result.success
    /\ settle[p].result.transaction = "tx1"
    /\ settle[p].txid = Some("tx1")

\* The verification behind the response of p ended in an exception that one
\* of the catch-all handlers of verifyPayment or validateUtxo turned into a
\* reason.
InternalFailure(p) ==
  /\ verify[p].stage = "done"
  /\ verify[p].result.invalidReason \in {"unexpected_verify_error",
                                         "unexpected_utxo_validation_error"}

\* C29: the response to POST verify has status 400 exactly when the body
\* lacks paymentPayload or paymentRequirements, status 500 when the
\* verification met an unexpected internal failure, and status 200 for
\* every other request that carries both fields, valid payment or not.
C29_VerifyStatusCodes ==
  \A p \in Calls :
    ( http[p].stage = "done" /\ http[p].endpoint = "verify" ) =>
      /\ http[p].status = 400 <=> http[p].body # "complete"
      /\ ( http[p].body = "complete" /\ InternalFailure(p) )
           => http[p].status = 500
      /\ ( http[p].body = "complete" /\ ~InternalFailure(p) )
           => http[p].status = 200

\* C30: every rejection verifyPayment returns names a reason and every
\* failure settlePayment returns names an errorReason; neither result, nor
\* any response of the request handler, carries the message of an exception,
\* also when validateUtxo's own result carried one.
C30_ReasonsWithoutExceptionText ==
  \A p \in Calls :
    /\ verify[p].stage = "done" =>
         /\ ~verify[p].result.errorMessage
         /\ ~verify[p].result.isValid => verify[p].result.invalidReason # ""
    /\ ( settle[p].stage = "done" /\ ~settle[p].result.success )
         => settle[p].result.errorReason # ""
    /\ http[p].stage = "done" =>
         /\ ~http[p].message
         /\ ( /\ http[p].status = 200
              /\ http[p].endpoint = "verify"
              /\ ~verify[p].result.isValid ) => http[p].reason # ""
         /\ ( /\ http[p].status = 200
              /\ http[p].endpoint = "settle"
              /\ ~settle[p].result.success ) => http[p].reason # ""

\* validateUtxo caught an exception and returned its message; the response
\* to the verify request names the reason and carries no message.
C30_Witness ==
  \E p \in Calls :
    /\ http[p].stage = "done"
    /\ http[p].endpoint = "verify"
    /\ result[p].errorMessage
    /\ verify[p].result.invalidReason = "unexpected_utxo_validation_error"
    /\ http[p].reason = "unexpected_utxo_validation_error"
    /\ ~http[p].message

\* C31: a verifyPayment of a signed authorization presented before
\* validAfter or at or after validBefore returns, in its first step,
\* authorization_not_yet_valid or authorization_expired; the step starts no
\* validateUtxo and leaves the store as it was.
C31_WindowEnforced ==
  [][\A p \in Calls :
       ( /\ VerifyEntered(p)
         /\ verify'[p].signature = "valid"
         /\ \/ nowSec(now) < verify'[p].validAfter
            \/ nowSec(now) >= verify'[p].validBefore )
       => /\ verify'[p].stage = "done"
          /\ verify'[p].result
               = VerifyReject(IF nowSec(now) < verify'[p].validAfter
                                THEN "authorization_not_yet_valid"
                                ELSE "authorization_expired")
          /\ LedgerUntouched
     ]_vars

\* C32: every authorization verifyPayment has accepted has validAfter <
\* validBefore and value > 0, and the header createPaymentHeader builds at
\* the current second has validAfter < validBefore whatever
\* maxTimeoutSeconds is.
C32_AcceptedWellFormed ==
  /\ \A p \in Calls :
       ( verify[p].stage = "done" /\ verify[p].result.isValid )
       => /\ verify[p].validAfter < verify[p].validBefore
          /\ verify[p].value > 0
  /\ \A req \in WindowRequirements, m \in MaxTimeouts :
       LET header == createPaymentHeader(nowSec(now), req, m) IN
       header.validAfter < header.validBefore

\* C33: the record of a funding reference never carries an accepted debit
\* made more than the revalidation threshold after the record was last
\* checked against the chain.
C33_StalenessBounded ==
  \A u \in UtxoIds :
    IsPresent(db[u]) =>
      Get(db[u]).lastChecked - chainChecked[u] <= revalidateThresholdMs

\* C34: a verifyPayment that returns isValid:false has not debited the
\* funding reference: a rejection in the first step leaves the store and the
\* validateUtxo calls as they were, and a rejection after validateUtxo
\* returned (value below maxAmountRequired, insufficient payer funds) is
\* that of a call whose validateUtxo wrote no debit.
C34_RejectedVerifyNoDebit ==
  [][\A p \in Calls :
       /\ ( /\ VerifyEntered(p)
            /\ verify'[p].stage = "done" )
          => LedgerUntouched
       /\ ( /\ verify[p].stage \in {"validateUtxo", "getBalance"}
            /\ verify'[p].stage = "done"
            /\ ~verify'[p].result.isValid )
          => ~result[p].isValid
     ]_vars

\* C38: in the step in which the payer's balance lookup answers, validateUtxo
\* has accepted and its debit is stored; when the lookup throws,
\* verifyPayment returns isValid:true; when it answers a balance below the
\* authorized value, verifyPayment returns insufficient_funds and the stored
\* debit stays.
C38_BalanceLookupOutcomes ==
  [][\A p \in Calls :
       ( verify[p].stage = "getBalance" /\ verify'[p].stage = "done" )
       => /\ result[p].isValid
          /\ IsPresent(db[args[p].utxoId])
          /\ db' = db
          /\ verify'[p].balanceThrew => verify'[p].result = VerifyAccept
          /\ ( /\ ~verify'[p].balanceThrew
               /\ Get(verify'[p].balance) < verify[p].value )
             => verify'[p].result = VerifyReject("insufficient_funds")
     ]_vars

\* The balance lookup threw and the payment was accepted.
C38_Witness ==
  \E p \in Calls :
    /\ verify[p].stage = "done"
    /\ verify[p].balanceThrew
    /\ ~IsPresent(verify[p].balance)
    /\ verify[p].result.isValid
    /\ IsPresent(db[args[p].utxoId])

\* C35: when the settlePayment that follows a valid verifyPayment of the
\* same payload has returned, the funding reference has been debited the
\* call cost once: totalDebitedSat is callCostSat.
C35_OneDebitPerApiCall ==
  \A p \in Calls :
    ( /\ settle[p].stage = "done"
      /\ IsPresent(db[args[p].utxoId]) )
    => Rec(args[p].utxoId).totalDebitedSat = args[p].callCostSat

\* C36: the stored record's totalDebitedSat is the sum of the call costs of
\* the debits that returned success, whatever the interleaving of the calls
\* on the funding reference.
C36_NoLostDebit ==
  \A u \in UtxoIds :
    IsPresent(db[u]) => Rec(u).totalDebitedSat = spent[u]

\* C37: a warm-path call that returns a rejection, whatever the reason,
\* leaves the store as it was in the step that returns, the stored record is
\* still the one the call read (lastChecked included), and no call that
\* awaits utxoDb.put carries a rejection.
C37_WarmRejectionLeavesRecord ==
  /\ [](\A p \in Calls : pc[p] = "put" => result[p].isValid)
  /\ [][\A p \in Calls :
          ( /\ pc[p] \notin {"idle", "done"}
            /\ pc'[p] = "done"
            /\ ~result'[p].isValid
            /\ path'[p] \in {"warmFresh", "warmStale"} )
          => /\ db' = db
             /\ IsPresent(db[args[p].utxoId])
             /\ result'[p].invalidReason # ""
             /\ path[p] = "warmStale" => db'[args[p].utxoId] = utxoInfo[p]
       ]_vars

\* A revalidated warm-path call has been rejected because the chain shows
\* less than was debited, and the record keeps its earlier lastChecked.
C37_Witness ==
  \E p \in Calls :
    /\ pc[p] = "done"
    /\ path[p] = "warmStale"
    /\ result[p].invalidReason = "utxo_previous_spend_detected"
    /\ IsPresent(db[args[p].utxoId])
    /\ Rec(args[p].utxoId).lastChecked < now

\* C39: no two settlePayment calls for authorizations with the same nonce
\* have both broadcast a transfer (wallet.send returned an identifier to
\* both).
C39_OneBroadcastPerNonce ==
  \A p \in Calls : \A q \in Calls \ {p} :
    ( /\ settle[p].nonce # ""
      /\ settle[p].nonce = settle[q].nonce
      /\ settle[p].stage = "done"
      /\ settle[p].result.success )
    => ~IsPresent(settle[q].txid)

\* C40: the client payment interceptor retries a request at most once.  No
\* request goes out more than twice; a request goes out again only after a
\* 402 reply to its first send, marked as a retry and carrying an X-PAYMENT
\* header; a 402 reply to a request marked as a retry is rejected to the
\* caller without another send; an error with another status, or without a
\* response, is rejected without another send; and a settled request is
\* never sent again.
C40_RetryAtMostOnce ==
  [][\A r \in Requests :
       /\ client'[r].sends <= 2
       /\ client'[r].sends > client[r].sends /\ client[r].sends >= 1
            => /\ client[r].sends = 1
               /\ client[r].status = 402
               /\ ~client[r].is402Retry
               /\ client'[r].is402Retry
               /\ IsPresent(client'[r].xPayment)
       /\ ( /\ client[r].stage = "inFlight"
            /\ client'[r] # client[r]
            /\ client[r].is402Retry )
            => /\ client'[r].stage \in {"resolved", "rejected"}
               /\ client'[r].sends = client[r].sends
               /\ client'[r].status = 402 => client'[r].stage = "rejected"
       /\ ( /\ client[r].stage = "inFlight"
            /\ client'[r] # client[r]
            /\ client'[r].status \notin {200, 402} )
            => /\ client'[r].stage = "rejected"
               /\ client'[r].sends = client[r].sends
       /\ client[r].stage \in {"resolved", "rejected"}
            => client'[r] = client[r]]_vars

\* A request was re-sent with its payment header, answered with 402 again,
\* and rejected to the caller after two sends.
C40_Witness ==
  \E r \in Requests :
    /\ client[r].stage = "rejected"
    /\ client[r].sends = 2
    /\ client[r].status = 402
    /\ client[r].is402Retry
    /\ IsPresent(client[r].xPayment)

====
